---- MODULE Spec2Model ----
(***************************************************************************)
(* Model of scripts/recover_summarized_exports.py: salvage of activity     *)
(* records from a malformed Garmin "summarizedActivitiesExport" export.    *)
(*                                                                         *)
(* A text is a sequence of characters, each character a one-character      *)
(* string (SOH stands for the control character U+0001).  Offsets are the  *)
(* 0-based offsets of the Python source: At(txt, k) is txt[k].             *)
(*                                                                         *)
(* The specifications share the variables:                                 *)
(*   ScanSpec        one call scan_objects(s, start), one step per         *)
(*                   character read, over every text of at most MaxLen     *)
(*                   characters;                                           *)
(*   Spec            main(), one step per statement group, the generator   *)
(*                   advanced one candidate at a time, over documents made *)
(*                   of at most MaxFrags fragments, exports truncated      *)
(*                   after at most MaxItems items, and a few whole         *)
(*                   documents;                                            *)
(*   ScanOrMainSpec  the two above side by side;                           *)
(*   TwiceSpec       main() run a second time on the same document and     *)
(*                   the same output file;                                 *)
(*   RepairSpec      light_cleanup and json.loads applied to a candidate   *)
(*                   that has one control character inside a string.       *)
(***************************************************************************)
EXTENDS Integers, Sequences, FiniteSets, TLC

VARIABLES
  s,                \* the decoded document / the text being scanned
  pc,               \* position in the program
  start,            \* scan_objects: the start offset of the current call
  i,                \* scan_objects: index of the next character
  in_str,           \* scan_objects: inside a string literal
  esc,              \* scan_objects: previous character was a backslash
  depth,            \* scan_objects: brace depth
  obj_start,        \* scan_objects: offset of the open object, or -1
  yielded,          \* spans <<a, b>> (text[a:b]) yielded by the current call
  hits,             \* main: offsets of the container key
  hx,               \* main: index of the current anchor in hits
  tier,             \* main: "none", "anchored" or "fallback"
  obj,              \* main: the candidate being processed
  o,                \* main: the parsed record
  total_candidates, \* main: counter
  written,          \* main: counter
  skipped,          \* main: counter
  out,              \* lines of the output file
  out_open,         \* the output file has been opened
  stdout,           \* summaries printed: <<candidates, written, skipped>>
  stderr,           \* messages printed to stderr
  exit_code,        \* -1 while running, 0 at normal return, else sys.exit code
  trail,            \* per-candidate log of what main did to it
  scans,            \* log of the scan_objects calls that ran to exhaustion
  run,              \* 1 in the first run of the program, 2 in a second run
  prev              \* what the first run left behind, <<>> in the first run

scanVars == <<start, i, in_str, esc, depth, obj_start, yielded>>
mainVars == <<hits, hx, tier, obj, o, total_candidates, written, skipped,
              out, out_open, stdout, stderr, exit_code, trail>>
histVars == <<scans, run, prev>>
vars == <<s, pc, scanVars, mainVars, histVars>>

\* ---------------------------------------------------------------- bounds
MaxLen == 6
MaxFrags == 3

\* ------------------------------------------------------------ characters
SOH == "U+0001"
QUOTE == "\""
BACKSLASH == "\\"
LBRACE == "{"
RBRACE == "}"

At(txt, k) == txt[k + 1]
Slice(txt, a, b) == SubSeq(txt, a + 1, b)

\* ------------------------------------------------------------ scan_objects
\* The scanner's local state at the top of the while loop.
ScanInit(from) ==
  [i |-> from, in_str |-> FALSE, esc |-> FALSE, depth |-> 0,
   obj_start |-> -1]

\* A faulty variant: the yield forgets to test depth == 0.
ScanCharEagerYield(st, ch) ==
  IF st.in_str THEN
    IF st.esc THEN
      [st |-> [st EXCEPT !.i = @ + 1, !.esc = FALSE], yield |-> <<>>]
    ELSE IF ch = BACKSLASH THEN
      [st |-> [st EXCEPT !.i = @ + 1, !.esc = TRUE], yield |-> <<>>]
    ELSE IF ch = QUOTE THEN
      [st |-> [st EXCEPT !.i = @ + 1, !.in_str = FALSE], yield |-> <<>>]
    ELSE
      [st |-> [st EXCEPT !.i = @ + 1], yield |-> <<>>]
  ELSE IF ch = QUOTE THEN
    [st |-> [st EXCEPT !.i = @ + 1, !.in_str = TRUE], yield |-> <<>>]
  ELSE IF ch = LBRACE THEN
    [st |-> [st EXCEPT !.i = @ + 1, !.depth = @ + 1,
                       !.obj_start = IF st.depth = 0 THEN st.i ELSE @],
     yield |-> <<>>]
  ELSE IF ch = RBRACE THEN
    IF st.obj_start >= 0
      THEN [st |-> [st EXCEPT !.i = @ + 1, !.depth = @ - 1, !.obj_start = -1],
            yield |-> <<st.obj_start, st.i + 1>>]
      ELSE [st |-> [st EXCEPT !.i = @ + 1, !.depth = @ - 1], yield |-> <<>>]
  ELSE
    [st |-> [st EXCEPT !.i = @ + 1], yield |-> <<>>]

\* A faulty variant: the scanner is not string aware.
ScanCharNoStrings(st, ch) ==
  IF ch = LBRACE THEN
    [st |-> [st EXCEPT !.i = @ + 1, !.depth = @ + 1,
                       !.obj_start = IF st.depth = 0 THEN st.i ELSE @],
     yield |-> <<>>]
  ELSE IF ch = RBRACE THEN
    IF st.depth - 1 = 0 /\ st.obj_start >= 0
      THEN [st |-> [st EXCEPT !.i = @ + 1, !.depth = @ - 1, !.obj_start = -1],
            yield |-> <<st.obj_start, st.i + 1>>]
      ELSE [st |-> [st EXCEPT !.i = @ + 1, !.depth = @ - 1], yield |-> <<>>]
  ELSE [st |-> [st EXCEPT !.i = @ + 1,
                          !.in_str = IF ch = QUOTE THEN ~st.in_str ELSE @],
        yield |-> <<>>]

\* A faulty variant: inside a string the continue of line 43 is taken without
\* i += 1 on a character that is neither a backslash nor a quote.
ScanCharStuckInString(st, ch) ==
  IF st.in_str THEN
    IF st.esc THEN
      [st |-> [st EXCEPT !.i = @ + 1, !.esc = FALSE], yield |-> <<>>]
    ELSE IF ch = BACKSLASH THEN
      [st |-> [st EXCEPT !.i = @ + 1, !.esc = TRUE], yield |-> <<>>]
    ELSE IF ch = QUOTE THEN
      [st |-> [st EXCEPT !.i = @ + 1, !.in_str = FALSE], yield |-> <<>>]
    ELSE
      [st |-> st, yield |-> <<>>]
  ELSE IF ch = QUOTE THEN
    [st |-> [st EXCEPT !.i = @ + 1, !.in_str = TRUE], yield |-> <<>>]
  ELSE IF ch = LBRACE THEN
    [st |-> [st EXCEPT !.i = @ + 1, !.depth = @ + 1,
                       !.obj_start = IF st.depth = 0 THEN st.i ELSE @],
     yield |-> <<>>]
  ELSE IF ch = RBRACE THEN
    IF st.depth - 1 = 0 /\ st.obj_start >= 0
      THEN [st |-> [st EXCEPT !.i = @ + 1, !.depth = @ - 1, !.obj_start = -1],
            yield |-> <<st.obj_start, st.i + 1>>]
      ELSE [st |-> [st EXCEPT !.i = @ + 1, !.depth = @ - 1], yield |-> <<>>]
  ELSE
    [st |-> [st EXCEPT !.i = @ + 1], yield |-> <<>>]

\* One iteration of the while loop on character ch = s[i]: the new local
\* state and the span yielded (<<>> when nothing is yielded).
ScanChar(st, ch) ==
  IF st.in_str THEN
    \* if esc: esc = False / elif ch == "\\": esc = True
    \* / elif ch == '"': in_str = False ; i += 1; continue
    IF st.esc THEN
      [st |-> [st EXCEPT !.i = @ + 1, !.esc = FALSE], yield |-> <<>>]
    ELSE IF ch = BACKSLASH THEN
      [st |-> [st EXCEPT !.i = @ + 1, !.esc = TRUE], yield |-> <<>>]
    ELSE IF ch = QUOTE THEN
      [st |-> [st EXCEPT !.i = @ + 1, !.in_str = FALSE], yield |-> <<>>]
    ELSE
      [st |-> [st EXCEPT !.i = @ + 1], yield |-> <<>>]
  ELSE IF ch = QUOTE THEN
    [st |-> [st EXCEPT !.i = @ + 1, !.in_str = TRUE], yield |-> <<>>]
  ELSE IF ch = LBRACE THEN
    [st |-> [st EXCEPT !.i = @ + 1, !.depth = @ + 1,
                       !.obj_start = IF st.depth = 0 THEN st.i ELSE @],
     yield |-> <<>>]
  ELSE IF ch = RBRACE THEN
    IF st.depth - 1 = 0 /\ st.obj_start >= 0
      THEN [st |-> [st EXCEPT !.i = @ + 1, !.depth = @ - 1, !.obj_start = -1],
            yield |-> <<st.obj_start, st.i + 1>>]
      ELSE [st |-> [st EXCEPT !.i = @ + 1, !.depth = @ - 1], yield |-> <<>>]
  ELSE
    [st |-> [st EXCEPT !.i = @ + 1], yield |-> <<>>]

\* The scanner's variables as one record, and back.
ScanState ==
  [i |-> i, in_str |-> in_str, esc |-> esc, depth |-> depth,
   obj_start |-> obj_start]

SetScanState(st) ==
  /\ i' = st.i
  /\ in_str' = st.in_str
  /\ esc' = st.esc
  /\ depth' = st.depth
  /\ obj_start' = st.obj_start

\* The while loop of lines 37-54 run over the offsets lo..hi-1 from the
\* result r of the iterations before them, stopping at the first yield.  The
\* range is split in two so that the evaluation does not nest once per
\* character.
RECURSIVE ScanRange(_, _, _, _)
ScanRange(txt, r, lo, hi) ==
  IF r.yield # <<>> \/ lo >= hi THEN r
  ELSE IF hi = lo + 1 THEN ScanChar(r.st, At(txt, lo))
  ELSE LET mid == (lo + hi) \div 2 IN
         ScanRange(txt, ScanRange(txt, r, lo, mid), mid, hi)

\* The generator resumed from local state st on text txt: it runs the while
\* loop until the next yield (line 52) or until i reaches end (line 37).
\* The result is the local state at that point and the span yielded, <<>>
\* when the generator is exhausted.
ScanResume(txt, st) ==
  ScanRange(txt, [st |-> st, yield |-> <<>>], st.i, Len(txt))

\* list(scan_objects(txt, ...)) from local state st: the spans of all the
\* candidates the generator still yields.
RECURSIVE ScanRest(_, _)
ScanRest(txt, st) ==
  LET r == ScanResume(txt, st) IN
    IF r.yield = <<>> THEN <<>> ELSE <<r.yield>> \o ScanRest(txt, r.st)

\* list(scan_objects(txt, from, None)), as spans.
ScanAll(txt, from) == ScanRest(txt, ScanInit(from))

\* ------------------------------------------------------------ text helpers
\* needle occurs in hay at offset j (str.startswith(needle, j)).
MatchAt(hay, needle, j) ==
  /\ j >= 0
  /\ j + Len(needle) <= Len(hay)
  /\ \A k \in 1..Len(needle) : hay[j + k] = needle[k]

\* str.find(needle, from): the lowest offset >= from of needle in hay, or -1.
Find(hay, needle, from) ==
  LET found == {j \in from..(Len(hay) - Len(needle)) : MatchAt(hay, needle, j)}
  IN  IF found = {} THEN -1
      ELSE CHOOSE j \in found : \A k \in found : j <= k

\* needle in hay
Contains(hay, needle) == Find(hay, needle, 0) >= 0

\* str.startswith
StartsWith(txt, prefix) == MatchAt(txt, prefix, 0)

\* Characters of the model that str.lstrip() strips.
IsSpace(c) == c \in {" ", "\n", "\t", "\r"}

\* str.lstrip()
LStrip(txt) ==
  LET kept == {k \in 1..Len(txt) : ~IsSpace(txt[k])} IN
    IF kept = {} THEN <<>>
    ELSE SubSeq(txt, CHOOSE k \in kept : \A m \in kept : k <= m, Len(txt))

\* str.replace(old, new): non-overlapping occurrences, left to right.
RECURSIVE Replace(_, _, _)
Replace(txt, old, new) ==
  LET j == Find(txt, old, 0) IN
    IF j < 0 THEN txt
    ELSE Slice(txt, 0, j) \o new
         \o Replace(SubSeq(txt, j + Len(old) + 1, Len(txt)), old, new)

\* ------------------------------------------------------ program constants
\* The container key searched by main (line 87).
ANCHOR_KEY ==
  <<
    "\"", "s", "u", "m", "m", "a", "r", "i", "z", "e", "d", "A", "c", "t",
    "i", "v", "i", "t", "i", "e", "s", "E", "x", "p", "o", "r", "t", "\"" >>

\* The markers tested by looks_like_activity (line 58).
KEY_ACTIVITY_TYPE ==
  <<
    "\"", "a", "c", "t", "i", "v", "i", "t", "y", "T", "y", "p", "e", "\"" >>

KEY_ACTIVITY_ID ==
  <<
    "\"", "a", "c", "t", "i", "v", "i", "t", "y", "I", "d", "\"" >>

KEY_SPLIT_SUMMARIES ==
  <<
    "\"", "s", "p", "l", "i", "t", "S", "u", "m", "m", "a", "r", "i", "e",
    "s", "\"" >>

\* The HTML document declaration tested by main (line 81).
HTML_DECL ==
  <<
    "<", "!", "D", "O", "C", "T", "Y", "P", "E", " ", "h", "t", "m", "l" >>

\* The spelling correction of light_cleanup (line 67).
CELCIUS ==
  <<
    "\"", "C", "E", "L", "C", "I", "U", "S", "\"" >>

CELSIUS ==
  <<
    "\"", "C", "E", "L", "S", "I", "U", "S", "\"" >>

\* ----------------------------------------------------------------- find_all
\* The loop of lines 26-29 with i = from and out still to be extended.
RECURSIVE FindAllFrom(_, _, _)
FindAllFrom(hay, needle, from) ==
  LET j == Find(hay, needle, from) IN
    IF j < 0 THEN <<>> ELSE <<j>> \o FindAllFrom(hay, needle, j + 1)

\* A faulty variant: the search stops at the first occurrence.
find_first_only(hay, needle) ==
  IF Find(hay, needle, 0) < 0 THEN <<>> ELSE <<Find(hay, needle, 0)>>

find_all(hay, needle) == FindAllFrom(hay, needle, 0)

\* ------------------------------------------------------ looks_like_activity
\* A faulty variant: the nested-collection marker is not required.
looks_like_activity_no_splits(txt) ==
  Contains(txt, KEY_ACTIVITY_TYPE) \/ Contains(txt, KEY_ACTIVITY_ID)

looks_like_activity(txt) ==
  /\ Contains(txt, KEY_ACTIVITY_TYPE) \/ Contains(txt, KEY_ACTIVITY_ID)
  /\ Contains(txt, KEY_SPLIT_SUMMARIES)

\* ------------------------------------------------------------ light_cleanup
\* The characters of the model whose code point is below that of space.
BelowSpace(c) == c \in {SOH, "\n", "\t", "\r"}

\* A faulty variant: no character is stripped.
light_cleanup_keeps_control(txt) ==
  LET t2 == Replace(txt, CELCIUS, CELSIUS)
      t3 == Replace(t2, <<",", "%">>, <<",">>)
      t4 == Replace(t3, <<"%", ",">>, <<",">>)
      t5 == Replace(t4, <<"%", "}">>, <<"}">>)
  IN  Replace(t5, <<"{", "%">>, <<"{">>)

\* Lines 62-66: drop the characters below space other than newline and tab.
StripControl(txt) ==
  SelectSeq(txt, LAMBDA c : ~BelowSpace(c) \/ c \in {"\n", "\t"})

light_cleanup(txt) ==
  LET t1 == StripControl(txt)
      t2 == Replace(t1, CELCIUS, CELSIUS)
      t3 == Replace(t2, <<",", "%">>, <<",">>)
      t4 == Replace(t3, <<"%", ",">>, <<",">>)
      t5 == Replace(t4, <<"%", "}">>, <<"}">>)
  IN  Replace(t5, <<"{", "%">>, <<"{">>)

\* --------------------------------------------------------------- json.loads
\* Python's strict json.loads on the characters of the model.  A parsed value
\* is a tagged tuple: <<"str", chars>>, <<"num", lexeme>>, <<"lit", chars>>,
\* <<"arr", values>>, <<"obj", pairs>> with pairs a sequence of <<key, value>>
\* in dict order.  A result is [ok, v, p]: success, the value, the offset after
\* it.
ParseFail == [ok |-> FALSE, v |-> <<>>, p |-> -1]
ParseOk(v, p) == [ok |-> TRUE, v |-> v, p |-> p]

Digits == {"0", "1", "2", "3", "4", "5", "6", "7", "8", "9"}
HexDigits ==
  Digits \cup {"a", "b", "c", "d", "e", "f", "A", "B", "C", "D", "E", "F"}
BS == "U+0008"

CharAt(txt, p) == IF p >= 0 /\ p < Len(txt) THEN txt[p + 1] ELSE ""

\* WHITESPACE.match(s, p).end()
RECURSIVE SkipWs(_, _)
SkipWs(txt, p) ==
  IF CharAt(txt, p) \in {" ", "\t", "\n", "\r"} THEN SkipWs(txt, p + 1) ELSE p

\* The character a backslash escape stands for, "" for an invalid escape.
Unescape(e) ==
  CASE e = QUOTE -> QUOTE
    [] e = BACKSLASH -> BACKSLASH
    [] e = "/" -> "/"
    [] e = "b" -> BS
    [] e = "f" -> "\f"
    [] e = "n" -> "\n"
    [] e = "r" -> "\r"
    [] e = "t" -> "\t"
    [] OTHER -> ""

\* One iteration of scanstring's loop at offset k, from the result r of the
\* iterations before it: r.p is the offset of the next character to read,
\* r.acc the characters decoded, r.end "" while the string is open, "ok" at
\* its closing quote and "fail" where scanstring raises.
ScanStringChar(txt, r, k) ==
  LET c == CharAt(txt, k)
      e == CharAt(txt, k + 1)
  IN
    IF r.end # "" \/ k < r.p THEN r
    ELSE IF c = QUOTE THEN [r EXCEPT !.p = k + 1, !.end = "ok"]
    ELSE IF c = BACKSLASH THEN
      IF e = "u" THEN
        IF \A n \in 2..5 : CharAt(txt, k + n) \in HexDigits
          THEN [r EXCEPT !.p = k + 6,
                         !.acc = Append(@, "\\u" \o CharAt(txt, k + 2)
                                   \o CharAt(txt, k + 3) \o CharAt(txt, k + 4)
                                   \o CharAt(txt, k + 5))]
          ELSE [r EXCEPT !.end = "fail"]
      ELSE IF e = "" \/ Unescape(e) = "" THEN [r EXCEPT !.end = "fail"]
      ELSE [r EXCEPT !.p = k + 2, !.acc = Append(@, Unescape(e))]
    ELSE IF BelowSpace(c) THEN [r EXCEPT !.end = "fail"]
    ELSE [r EXCEPT !.p = k + 1, !.acc = Append(@, c)]

RECURSIVE ScanStringRange(_, _, _, _)
ScanStringRange(txt, r, lo, hi) ==
  IF r.end # "" \/ lo >= hi THEN r
  ELSE IF hi = lo + 1 THEN ScanStringChar(txt, r, lo)
  ELSE LET mid == (lo + hi) \div 2 IN
         ScanStringRange(txt, ScanStringRange(txt, r, lo, mid), mid, hi)

\* scanstring(s, p, strict=True), p just past the opening quote; a string
\* that is still open at the end of the text is unterminated.
ScanString(txt, p) ==
  LET r == ScanStringRange(txt, [p |-> p, acc |-> <<>>, end |-> ""],
                           p, Len(txt))
  IN  IF r.end = "ok" THEN ParseOk(<<"str", r.acc>>, r.p) ELSE ParseFail

RECURSIVE SkipDigits(_, _)
SkipDigits(txt, p) ==
  IF CharAt(txt, p) \in Digits THEN SkipDigits(txt, p + 1) ELSE p

\* NUMBER_RE.match(s, p): the offset after the match, -1 when there is none.
NumberEnd(txt, p) ==
  LET q0 == IF CharAt(txt, p) = "-" THEN p + 1 ELSE p
      q1 == IF CharAt(txt, q0) = "0" THEN q0 + 1
            ELSE IF CharAt(txt, q0) \in Digits THEN SkipDigits(txt, q0)
            ELSE -1
      q2 == IF CharAt(txt, q1) = "." /\ CharAt(txt, q1 + 1) \in Digits
              THEN SkipDigits(txt, q1 + 1) ELSE q1
      q3 == IF CharAt(txt, q2) \in {"+", "-"} THEN q2 + 2 ELSE q2 + 1
      q4 == IF CharAt(txt, q2) \in {"e", "E"} /\ CharAt(txt, q3) \in Digits
              THEN SkipDigits(txt, q3) ELSE q2
  IN  IF q1 < 0 THEN -1 ELSE q4

LIT_NULL == <<"n", "u", "l", "l">>
LIT_TRUE == <<"t", "r", "u", "e">>
LIT_FALSE == <<"f", "a", "l", "s", "e">>
LIT_NAN == <<"N", "a", "N">>
LIT_INFINITY == <<"I", "n", "f", "i", "n", "i", "t", "y">>
LIT_NEG_INFINITY == <<"-">> \o LIT_INFINITY

\* dict[k] = v
DictPut(pairs, k, v) ==
  IF \E n \in 1..Len(pairs) : pairs[n][1] = k
    THEN [n \in 1..Len(pairs) |->
            IF pairs[n][1] = k THEN <<k, v>> ELSE pairs[n]]
    ELSE Append(pairs, <<k, v>>)

RECURSIVE ParseValue(_, _)
RECURSIVE ParseMembers(_, _, _)
RECURSIVE ParseElements(_, _, _)

\* JSONObject, p just past the opening quote of a key.
ParseMembers(txt, p, pairs) ==
  LET k == ScanString(txt, p) IN
    IF ~k.ok THEN ParseFail
    ELSE LET q == SkipWs(txt, k.p) IN
      IF CharAt(txt, q) # ":" THEN ParseFail
      ELSE LET v == ParseValue(txt, SkipWs(txt, q + 1)) IN
        IF ~v.ok THEN ParseFail
        ELSE LET r == SkipWs(txt, v.p)
                 d == DictPut(pairs, k.v[2], v.v)
             IN
          IF CharAt(txt, r) = "}" THEN ParseOk(<<"obj", d>>, r + 1)
          ELSE IF CharAt(txt, r) # "," THEN ParseFail
          ELSE LET r2 == SkipWs(txt, r + 1) IN
            IF CharAt(txt, r2) # QUOTE THEN ParseFail
            ELSE ParseMembers(txt, r2 + 1, d)

\* JSONArray, p at the first character of an element.
ParseElements(txt, p, acc) ==
  LET v == ParseValue(txt, p) IN
    IF ~v.ok THEN ParseFail
    ELSE LET r == SkipWs(txt, v.p) IN
      IF CharAt(txt, r) = "]" THEN ParseOk(<<"arr", Append(acc, v.v)>>, r + 1)
      ELSE IF CharAt(txt, r) # "," THEN ParseFail
      ELSE ParseElements(txt, SkipWs(txt, r + 1), Append(acc, v.v))

\* scan_once(s, p)
ParseValue(txt, p) ==
  LET c == CharAt(txt, p) IN
    IF c = "" THEN ParseFail
    ELSE IF c = QUOTE THEN ScanString(txt, p + 1)
    ELSE IF c = "{" THEN
      LET q == SkipWs(txt, p + 1) IN
        IF CharAt(txt, q) = "}" THEN ParseOk(<<"obj", <<>>>>, q + 1)
        ELSE IF CharAt(txt, q) # QUOTE THEN ParseFail
        ELSE ParseMembers(txt, q + 1, <<>>)
    ELSE IF c = "[" THEN
      LET q == SkipWs(txt, p + 1) IN
        IF CharAt(txt, q) = "]" THEN ParseOk(<<"arr", <<>>>>, q + 1)
        ELSE ParseElements(txt, q, <<>>)
    ELSE IF MatchAt(txt, LIT_NULL, p) THEN ParseOk(<<"lit", LIT_NULL>>, p + 4)
    ELSE IF MatchAt(txt, LIT_TRUE, p) THEN ParseOk(<<"lit", LIT_TRUE>>, p + 4)
    ELSE IF MatchAt(txt, LIT_FALSE, p) THEN ParseOk(<<"lit", LIT_FALSE>>, p + 5)
    ELSE IF NumberEnd(txt, p) >= 0
      THEN ParseOk(<<"num", Slice(txt, p, NumberEnd(txt, p))>>, NumberEnd(txt, p))
    ELSE IF MatchAt(txt, LIT_NAN, p) THEN ParseOk(<<"lit", LIT_NAN>>, p + 3)
    ELSE IF MatchAt(txt, LIT_INFINITY, p)
      THEN ParseOk(<<"lit", LIT_INFINITY>>, p + 8)
    ELSE IF MatchAt(txt, LIT_NEG_INFINITY, p)
      THEN ParseOk(<<"lit", LIT_NEG_INFINITY>>, p + 9)
    ELSE ParseFail

\* json.loads(txt): ok is FALSE where Python raises.
JsonLoads(txt) ==
  LET v == ParseValue(txt, SkipWs(txt, 0)) IN
    IF ~v.ok THEN ParseFail
    ELSE IF SkipWs(txt, v.p) # Len(txt) THEN ParseFail
    ELSE v

\* --------------------------------------------------------------- json.dumps
\* The escapes json.dumps writes with ensure_ascii=False.
EscapeChar(c) ==
  CASE c = QUOTE -> <<BACKSLASH, QUOTE>>
    [] c = BACKSLASH -> <<BACKSLASH, BACKSLASH>>
    [] c = "\n" -> <<BACKSLASH, "n">>
    [] c = "\r" -> <<BACKSLASH, "r">>
    [] c = "\t" -> <<BACKSLASH, "t">>
    [] c = "\f" -> <<BACKSLASH, "f">>
    [] c = BS -> <<BACKSLASH, "b">>
    [] OTHER -> <<c>>

RECURSIVE EscapeStr(_)
EscapeStr(chars) ==
  IF chars = <<>> THEN <<>>
  ELSE IF Len(chars) = 1 THEN EscapeChar(chars[1])
  ELSE LET mid == Len(chars) \div 2 IN
         EscapeStr(SubSeq(chars, 1, mid))
         \o EscapeStr(SubSeq(chars, mid + 1, Len(chars)))

RECURSIVE JsonDumps(_)
RECURSIVE DumpItems(_, _)

\* The items of an array (pairs = FALSE) or of a dict (pairs = TRUE), joined
\* by ", ".
DumpItems(items, pairs) ==
  IF items = <<>> THEN <<>>
  ELSE LET h == Head(items)
           one == IF pairs
                    THEN <<QUOTE>> \o EscapeStr(h[1]) \o <<QUOTE, ":", " ">>
                         \o JsonDumps(h[2])
                    ELSE JsonDumps(h)
       IN  IF Len(items) = 1 THEN one
           ELSE one \o <<",", " ">> \o DumpItems(Tail(items), pairs)

\* json.dumps(v, ensure_ascii=False)
JsonDumps(v) ==
  CASE v[1] = "str" -> <<QUOTE>> \o EscapeStr(v[2]) \o <<QUOTE>>
    [] v[1] = "num" -> v[2]
    [] v[1] = "lit" -> v[2]
    [] v[1] = "arr" -> <<"[">> \o DumpItems(v[2], FALSE) \o <<"]">>
    [] v[1] = "obj" -> <<"{">> \o DumpItems(v[2], TRUE) \o <<"}">>

\* ---------------------------------------------------------------- ScanSpec
ScanAlphabet == {LBRACE, RBRACE, QUOTE, BACKSLASH, "a"}

ScanTexts == UNION {[1..n -> ScanAlphabet] : n \in 0..MaxLen}

MainIdle ==
  /\ hits = <<>>
  /\ hx = 0
  /\ tier = "none"
  /\ obj = <<>>
  /\ o = <<>>
  /\ total_candidates = 0
  /\ written = 0
  /\ skipped = 0
  /\ out = <<>>
  /\ out_open = FALSE
  /\ stdout = <<>>
  /\ stderr = <<>>
  /\ exit_code = -1
  /\ trail = <<>>
  /\ scans = <<>>
  /\ run = 1
  /\ prev = <<>>

\* scan_objects(s, start, None) has been called and has run lines 34-36.
ScanSpecInit ==
  /\ s \in ScanTexts
  /\ start \in 0..Len(s)
  /\ pc = "while"
  /\ i = start
  /\ in_str = FALSE
  /\ esc = FALSE
  /\ depth = 0
  /\ obj_start = -1
  /\ yielded = <<>>
  /\ MainIdle

\* Lines 37-54, an iteration that yields nothing.
ScanRead ==
  /\ pc = "while"
  /\ i < Len(s)
  /\ LET r == ScanChar(ScanState, At(s, i)) IN
       /\ r.yield = <<>>
       /\ SetScanState(r.st)
       /\ UNCHANGED yielded
  /\ UNCHANGED <<s, histVars, pc, start, mainVars>>

\* Lines 37-54, an iteration that reaches the yield of line 52.
ScanYield ==
  /\ pc = "while"
  /\ i < Len(s)
  /\ LET r == ScanChar(ScanState, At(s, i)) IN
       /\ r.yield # <<>>
       /\ SetScanState(r.st)
       /\ yielded' = Append(yielded, r.yield)
  /\ UNCHANGED <<s, histVars, pc, start, mainVars>>

\* Line 37: i reached end, the generator is exhausted.
ScanReturn ==
  /\ pc = "while"
  /\ i >= Len(s)
  /\ pc' = "returned"
  /\ UNCHANGED <<s, histVars, scanVars, mainVars>>

ScanNext == ScanRead \/ ScanYield \/ ScanReturn

ScanSpec == ScanSpecInit /\ [][ScanNext]_vars

\* -------------------------------------------------------------- documents
\* The fragments documents are made of: the container key, structural
\* characters, a well-formed activity, an activity with a control character
\* in a string (strict parsing fails, light_cleanup repairs it), an activity
\* no repair fixes, a non-activity object, the HTML declaration, a space.
ActOk ==
  <<
    "{", "\"", "a", "c", "t", "i", "v", "i", "t", "y", "I", "d", "\"", ":",
    "1", ",", "\"", "s", "p", "l", "i", "t", "S", "u", "m", "m", "a", "r",
    "i", "e", "s", "\"", ":", "[", "]", "}" >>

ActCtl ==
  <<
    "{", "\"", "a", "c", "t", "i", "v", "i", "t", "y", "T", "y", "p", "e",
    "\"", ":", "\"", "r", SOH, "\"", ",", "\"", "s", "p", "l", "i", "t",
    "S", "u", "m", "m", "a", "r", "i", "e", "s", "\"", ":", "[", "]", "}" >>

ActBad ==
  <<
    "{", "\"", "a", "c", "t", "i", "v", "i", "t", "y", "I", "d", "\"", ":",
    ",", "\"", "s", "p", "l", "i", "t", "S", "u", "m", "m", "a", "r", "i",
    "e", "s", "\"", ":", "[", "]", "}" >>

NonAct ==
  <<
    "{", "\"", "f", "o", "o", "\"", ":", "\"", "b", "a", "r", "\"", "}" >>

Frags ==
  <<ANCHOR_KEY, <<"[">>, <<"]">>, <<LBRACE>>, <<RBRACE>>, <<QUOTE>>,
    ActOk, ActCtl, ActBad, NonAct, HTML_DECL, <<" ">>>>

RECURSIVE Concat(_)
Concat(parts) ==
  IF parts = <<>> THEN <<>> ELSE Head(parts) \o Concat(Tail(parts))

FragDocs ==
  {Concat([k \in 1..Len(ix) |-> Frags[ix[k]]]) :
     ix \in UNION {[1..n -> 1..Len(Frags)] : n \in 0..MaxFrags}}

\* The end-to-end example of the specification: a truncated export with one
\* activity followed by a non-activity object.
ExampleDoc ==
  <<
    "{", "\"", "s", "u", "m", "m", "a", "r", "i", "z", "e", "d", "A", "c",
    "t", "i", "v", "i", "t", "i", "e", "s", "E", "x", "p", "o", "r", "t",
    "\"", ":", "[", "{", "\"", "a", "c", "t", "i", "v", "i", "t", "y", "I",
    "d", "\"", ":", "1", ",", "\"", "a", "c", "t", "i", "v", "i", "t", "y",
    "T", "y", "p", "e", "\"", ":", "\"", "r", "u", "n", "n", "i", "n", "g",
    "\"", ",", "\"", "s", "p", "l", "i", "t", "S", "u", "m", "m", "a", "r",
    "i", "e", "s", "\"", ":", "[", "{", "\"", "x", "\"", ":", "1", "}",
    "]", "}", ",", "{", "\"", "f", "o", "o", "\"", ":", "\"", "b", "a",
    "r", "\"", "}" >>

\* A complete export whose only record lacks the nested-collection marker.
WrapperDoc ==
  <<
    "{", "\"", "s", "u", "m", "m", "a", "r", "i", "z", "e", "d", "A", "c",
    "t", "i", "v", "i", "t", "i", "e", "s", "E", "x", "p", "o", "r", "t",
    "\"", ":", "[", "{", "\"", "a", "c", "t", "i", "v", "i", "t", "y", "I",
    "d", "\"", ":", "1", "}", "]", "}" >>

\* Truncated exports: the head {"summarizedActivitiesExport":[ followed by
\* at most MaxItems complete objects, comma separated, and by a tail: nothing,
\* an activity cut inside its nested collection, or an object cut inside a
\* string that holds a brace.
MaxItems == 2

TruncHead == <<LBRACE>> \o ANCHOR_KEY \o <<":", "[">>

Items == <<ActOk, ActCtl, ActBad, NonAct>>

TailOpen ==
  <<
    "{", "\"", "a", "c", "t", "i", "v", "i", "t", "y", "I", "d", "\"", ":",
    "3", ",", "\"", "s", "p", "l", "i", "t", "S", "u", "m", "m", "a", "r",
    "i", "e", "s", "\"", ":", "[" >>

TailStr ==
  <<
    "{", "\"", "a", "\"", ":", "\"", "}" >>

Tails == <<<<>>, TailOpen, TailStr>>

TruncCases ==
  {[items |-> it, tail |-> tl] :
     it \in UNION {[1..n -> 1..Len(Items)] : n \in 0..MaxItems},
     tl \in 1..Len(Tails)}

RECURSIVE JoinItems(_)
JoinItems(it) ==
  IF it = <<>> THEN <<>>
  ELSE Items[Head(it)] \o <<",">> \o JoinItems(Tail(it))

\* The text of a truncated export; every complete object is followed by a
\* comma, as in an array cut before its next element.
TruncText(c) == TruncHead \o JoinItems(c.items) \o Tails[c.tail]

TruncDocs == {TruncText(c) : c \in TruncCases}

\* A well-formed activity nested in another object, no container key:
\* {"data":{"activityId":1,"splitSummaries":[]}}
NestedDoc ==
  <<LBRACE, QUOTE, "d", "a", "t", "a", QUOTE, ":">> \o ActOk \o <<RBRACE>>

\* A second well-formed activity.
Act2 ==
  <<
    "{", "\"", "a", "c", "t", "i", "v", "i", "t", "y", "I", "d", "\"", ":",
    "2", ",", "\"", "s", "p", "l", "i", "t", "S", "u", "m", "m", "a", "r",
    "i", "e", "s", "\"", ":", "[", "]", "}" >>

\* A complete export of one record.
Export(rec) == TruncHead \o rec \o <<"]", RBRACE>>

\* Two complete exports, one after the other.
TwoExportsDoc == Export(ActOk) \o Export(Act2)

\* A complete export with an empty array and an activity under another key:
\* {"summarizedActivitiesExport":[],"x":{"activityId":1,"splitSummaries":[]}}
SiblingDoc ==
  TruncHead \o <<"]", ",", QUOTE, "x", QUOTE, ":">> \o ActOk \o <<RBRACE>>

Docs ==
  FragDocs \cup {ExampleDoc, WrapperDoc, NestedDoc, TwoExportsDoc, SiblingDoc}
  \cup TruncDocs

\* -------------------------------------------------------------------- main
\* The log of what main did to the candidates: one entry per candidate, the
\* tier and the start offset of the scan it came from, its span and the steps
\* taken on it, in order.
Log(step) ==
  trail' = [trail EXCEPT ![Len(trail)].steps = Append(@, step)]

\* main has read the document (line 78).
Init ==
  /\ s \in Docs
  /\ pc = "start"
  /\ start = 0
  /\ i = 0
  /\ in_str = FALSE
  /\ esc = FALSE
  /\ depth = 0
  /\ obj_start = -1
  /\ yielded = <<>>
  /\ MainIdle

\* Lines 79-80.
ExitEmpty ==
  /\ pc = "start"
  /\ s = <<>>
  /\ stderr' = Append(stderr, "Empty input.")
  /\ exit_code' = 1
  /\ pc' = "done"
  /\ UNCHANGED <<s, histVars, scanVars, hits, hx, tier, obj, o, total_candidates,
                 written, skipped, out, out_open, stdout, trail>>

\* Lines 81-82.
ExitHtml ==
  /\ pc = "start"
  /\ s # <<>>
  /\ StartsWith(LStrip(s), HTML_DECL)
  /\ stderr' = Append(stderr, "Looks like an HTML error page")
  /\ exit_code' = 2
  /\ pc' = "done"
  /\ UNCHANGED <<s, histVars, scanVars, hits, hx, tier, obj, o, total_candidates,
                 written, skipped, out, out_open, stdout, trail>>

\* A faulty variant: the output is opened without the HTML test of line 81.
OpenOutUnguarded ==
  /\ pc = "start"
  /\ s # <<>>
  /\ total_candidates' = 0
  /\ written' = 0
  /\ skipped' = 0
  /\ out_open' = TRUE
  /\ out' = <<>>
  /\ hits' = find_all(s, ANCHOR_KEY)
  /\ hx' = 0
  /\ tier' = "anchored"
  /\ pc' = "hits"
  /\ UNCHANGED <<s, histVars, scanVars, obj, o, stdout, stderr, exit_code, trail>>

\* A faulty variant: the output file is opened for appending, not truncated.
OpenOutAppend ==
  /\ pc = "start"
  /\ s # <<>>
  /\ ~StartsWith(LStrip(s), HTML_DECL)
  /\ total_candidates' = 0
  /\ written' = 0
  /\ skipped' = 0
  /\ out_open' = TRUE
  /\ out' = out
  /\ hits' = find_all(s, ANCHOR_KEY)
  /\ hx' = 0
  /\ tier' = "anchored"
  /\ pc' = "hits"
  /\ UNCHANGED <<s, histVars, scanVars, obj, o, stdout, stderr, exit_code,
                 trail>>

\* Lines 84-87: the counters, the output file opened for writing, find_all.
OpenOut ==
  /\ pc = "start"
  /\ s # <<>>
  /\ ~StartsWith(LStrip(s), HTML_DECL)
  /\ total_candidates' = 0
  /\ written' = 0
  /\ skipped' = 0
  /\ out_open' = TRUE
  /\ out' = <<>>
  /\ hits' = find_all(s, ANCHOR_KEY)
  /\ hx' = 0
  /\ tier' = "anchored"
  /\ pc' = "hits"
  /\ UNCHANGED <<s, histVars, scanVars, obj, o, stdout, stderr, exit_code, trail>>

\* Lines 88-90: an anchor with no "[" after it is passed over.
AnchorNoArray ==
  /\ pc = "hits"
  /\ hx < Len(hits)
  /\ Find(s, <<"[">>, hits[hx + 1]) < 0
  /\ hx' = hx + 1
  /\ UNCHANGED <<s, histVars, pc, scanVars, hits, tier, obj, o, total_candidates,
                 written, skipped, out, out_open, stdout, stderr, exit_code,
                 trail>>

\* A faulty variant: the scan starts at the start of the document, not just
\* past the "[" of the array.
AnchorScanFromDocStart ==
  /\ pc = "hits"
  /\ hx < Len(hits)
  /\ Find(s, <<"[">>, hits[hx + 1]) >= 0
  /\ start' = 0
  /\ SetScanState(ScanInit(0))
  /\ yielded' = <<>>
  /\ pc' = "scan"
  /\ UNCHANGED <<s, histVars, mainVars>>

\* Lines 88-94: scan_objects(s, arr_l + 1, None) is called.
AnchorScan ==
  /\ pc = "hits"
  /\ hx < Len(hits)
  /\ LET arr_l == Find(s, <<"[">>, hits[hx + 1]) IN
       /\ arr_l >= 0
       /\ start' = arr_l + 1
       /\ SetScanState(ScanInit(arr_l + 1))
  /\ yielded' = <<>>
  /\ pc' = "scan"
  /\ UNCHANGED <<s, histVars, mainVars>>

\* Line 88: the anchors are exhausted.
AnchorsDone ==
  /\ pc = "hits"
  /\ hx = Len(hits)
  /\ pc' = "fallback"
  /\ UNCHANGED <<s, histVars, scanVars, mainVars>>

\* Lines 94-95 and 111-112: the generator yields the next candidate.
NextCandidate ==
  /\ pc = "scan"
  /\ LET r == ScanResume(s, ScanState) IN
       /\ r.yield # <<>>
       /\ SetScanState(r.st)
       /\ yielded' = Append(yielded, r.yield)
       /\ obj' = Slice(s, r.yield[1], r.yield[2])
       /\ trail' = Append(trail, [tier |-> tier, start |-> start,
                                  span |-> r.yield, steps |-> <<>>])
  /\ total_candidates' = total_candidates + 1
  /\ pc' = "classify"
  /\ UNCHANGED <<s, histVars, start, hits, hx, tier, o, written, skipped, out,
                 out_open, stdout, stderr, exit_code>>

\* Lines 94 and 111: the generator is exhausted; the anchored tier goes on
\* to the next anchor, the fallback tier to the summary.
ScanExhausted ==
  /\ pc = "scan"
  /\ LET r == ScanResume(s, ScanState) IN
       /\ r.yield = <<>>
       /\ SetScanState(r.st)
  /\ IF tier = "anchored"
       THEN hx' = hx + 1 /\ pc' = "hits"
       ELSE hx' = hx /\ pc' = "summary"
  /\ scans' = Append(scans, [tier |-> tier, start |-> start,
                             cands |-> yielded])
  /\ UNCHANGED <<s, run, prev, start, yielded, hits, tier, obj, o,
                 total_candidates, written, skipped, out, out_open, stdout,
                 stderr, exit_code, trail>>

\* Lines 96-97 and 113-114: the classifier rejects the candidate.
Reject ==
  /\ pc = "classify"
  /\ ~looks_like_activity(obj)
  /\ Log("rejected")
  /\ pc' = "scan"
  /\ UNCHANGED <<s, histVars, scanVars, hits, hx, tier, obj, o, total_candidates,
                 written, skipped, out, out_open, stdout, stderr, exit_code>>

\* Lines 96 and 113: the classifier accepts the candidate.
Accept ==
  /\ pc = "classify"
  /\ looks_like_activity(obj)
  /\ Log("accepted")
  /\ pc' = "parse"
  /\ UNCHANGED <<s, histVars, scanVars, hits, hx, tier, obj, o, total_candidates,
                 written, skipped, out, out_open, stdout, stderr, exit_code>>

\* Lines 99 and 116: json.loads(obj) returns.
ParseRaw ==
  /\ pc = "parse"
  /\ JsonLoads(obj).ok
  /\ o' = JsonLoads(obj).v
  /\ Log("loads ok")
  /\ pc' = "write"
  /\ UNCHANGED <<s, histVars, scanVars, hits, hx, tier, obj, total_candidates,
                 written, skipped, out, out_open, stdout, stderr, exit_code>>

\* Lines 99-100 and 116-117: json.loads(obj) raises.
ParseRawFails ==
  /\ pc = "parse"
  /\ ~JsonLoads(obj).ok
  /\ Log("loads raised")
  /\ pc' = "repair"
  /\ UNCHANGED <<s, histVars, scanVars, hits, hx, tier, obj, o, total_candidates,
                 written, skipped, out, out_open, stdout, stderr, exit_code>>

\* Lines 102 and 119: json.loads(light_cleanup(obj)) returns.
ParseRepaired ==
  /\ pc = "repair"
  /\ JsonLoads(light_cleanup(obj)).ok
  /\ o' = JsonLoads(light_cleanup(obj)).v
  /\ Log("cleanup, loads ok")
  /\ pc' = "write"
  /\ UNCHANGED <<s, histVars, scanVars, hits, hx, tier, obj, total_candidates,
                 written, skipped, out, out_open, stdout, stderr, exit_code>>

\* A faulty variant: the second failure leaves the scan instead of continuing it.
SkipCandidateAborts ==
  /\ pc = "repair"
  /\ ~JsonLoads(light_cleanup(obj)).ok
  /\ skipped' = skipped + 1
  /\ Log("cleanup, loads raised, skipped")
  /\ pc' = "summary"
  /\ UNCHANGED <<s, histVars, scanVars, hits, hx, tier, obj, o, total_candidates,
                 written, out, out_open, stdout, stderr, exit_code>>

\* Lines 102-105 and 119-122: json.loads(light_cleanup(obj)) raises.
SkipCandidate ==
  /\ pc = "repair"
  /\ ~JsonLoads(light_cleanup(obj)).ok
  /\ skipped' = skipped + 1
  /\ Log("cleanup, loads raised, skipped")
  /\ pc' = "scan"
  /\ UNCHANGED <<s, histVars, scanVars, hits, hx, tier, obj, o, total_candidates,
                 written, out, out_open, stdout, stderr, exit_code>>

\* A faulty variant: the line is put before the lines already written.
WriteRecordPrepend ==
  /\ pc = "write"
  /\ out' = <<JsonDumps(o) \o <<"\n">>>> \o out
  /\ written' = written + 1
  /\ Log("written")
  /\ pc' = "scan"
  /\ UNCHANGED <<s, histVars, scanVars, hits, hx, tier, obj, o,
                 total_candidates, skipped, out_open, stdout, stderr,
                 exit_code>>

\* Lines 106-107 and 123-124.
WriteRecord ==
  /\ pc = "write"
  /\ out' = Append(out, JsonDumps(o) \o <<"\n">>)
  /\ written' = written + 1
  /\ Log("written")
  /\ pc' = "scan"
  /\ UNCHANGED <<s, histVars, scanVars, hits, hx, tier, obj, o, total_candidates,
                 skipped, out_open, stdout, stderr, exit_code>>

\* A faulty variant: the fallback scan does not test written == 0.
FallbackScanAlways ==
  /\ pc = "fallback"
  /\ tier' = "fallback"
  /\ start' = 0
  /\ SetScanState(ScanInit(0))
  /\ yielded' = <<>>
  /\ pc' = "scan"
  /\ UNCHANGED <<s, histVars, hits, hx, obj, o, total_candidates, written, skipped,
                 out, out_open, stdout, stderr, exit_code, trail>>

\* A faulty variant: the counters start again from 0 for the fallback scan.
FallbackScanResets ==
  /\ pc = "fallback"
  /\ written = 0
  /\ tier' = "fallback"
  /\ start' = 0
  /\ SetScanState(ScanInit(0))
  /\ yielded' = <<>>
  /\ total_candidates' = 0
  /\ skipped' = 0
  /\ pc' = "scan"
  /\ UNCHANGED <<s, histVars, hits, hx, obj, o, written, out, out_open,
                 stdout, stderr, exit_code, trail>>

\* Lines 110-111: nothing written, scan_objects(s, 0, None) is called.
FallbackScan ==
  /\ pc = "fallback"
  /\ written = 0
  /\ tier' = "fallback"
  /\ start' = 0
  /\ SetScanState(ScanInit(0))
  /\ yielded' = <<>>
  /\ pc' = "scan"
  /\ UNCHANGED <<s, histVars, hits, hx, obj, o, total_candidates, written, skipped,
                 out, out_open, stdout, stderr, exit_code, trail>>

\* Line 110: something was written, the fallback is passed over.
FallbackSkipped ==
  /\ pc = "fallback"
  /\ written # 0
  /\ pc' = "summary"
  /\ UNCHANGED <<s, histVars, scanVars, mainVars>>

\* Line 126: the summary line.
PrintSummary ==
  /\ pc = "summary"
  /\ stdout' = Append(stdout, <<total_candidates, written, skipped>>)
  /\ pc' = "check"
  /\ UNCHANGED <<s, histVars, scanVars, hits, hx, tier, obj, o, total_candidates,
                 written, skipped, out, out_open, stderr, exit_code, trail>>

\* A faulty variant: the run also fails when a candidate was skipped.
ExitOnAnySkip ==
  /\ pc = "check"
  /\ written = 0 \/ skipped > 0
  /\ stderr' = Append(stderr, "No activity objects recovered.")
  /\ exit_code' = 3
  /\ pc' = "done"
  /\ UNCHANGED <<s, histVars, scanVars, hits, hx, tier, obj, o, total_candidates,
                 written, skipped, out, out_open, stdout, trail>>

\* A faulty variant: the failure exit is taken before the summary is printed.
ExitNoRecordsBeforeSummary ==
  /\ pc = "summary"
  /\ written = 0
  /\ stderr' = Append(stderr, "No activity objects recovered.")
  /\ exit_code' = 3
  /\ pc' = "done"
  /\ UNCHANGED <<s, histVars, scanVars, hits, hx, tier, obj, o, total_candidates,
                 written, skipped, out, out_open, stdout, trail>>

\* Lines 127-129.
ExitNoRecords ==
  /\ pc = "check"
  /\ written = 0
  /\ stderr' = Append(stderr, "No activity objects recovered.")
  /\ exit_code' = 3
  /\ pc' = "done"
  /\ UNCHANGED <<s, histVars, scanVars, hits, hx, tier, obj, o, total_candidates,
                 written, skipped, out, out_open, stdout, trail>>

\* Line 127, written > 0: main returns.
Return ==
  /\ pc = "check"
  /\ written # 0
  /\ exit_code' = 0
  /\ pc' = "done"
  /\ UNCHANGED <<s, histVars, scanVars, hits, hx, tier, obj, o, total_candidates,
                 written, skipped, out, out_open, stdout, stderr, trail>>

Next ==
  \/ ExitEmpty
  \/ ExitHtml
  \/ OpenOut
  \/ AnchorNoArray
  \/ AnchorScan
  \/ AnchorsDone
  \/ NextCandidate
  \/ ScanExhausted
  \/ Reject
  \/ Accept
  \/ ParseRaw
  \/ ParseRawFails
  \/ ParseRepaired
  \/ SkipCandidate
  \/ WriteRecord
  \/ FallbackScan
  \/ FallbackSkipped
  \/ PrintSummary
  \/ ExitNoRecords
  \/ Return

Spec == Init /\ [][Next]_vars

\* ------------------------------------------------------- scanner and main
\* Both specifications side by side: a behaviour is either one call of
\* scan_objects read character by character or one run of main.
ScanOrMainInit == ScanSpecInit \/ Init

ScanOrMainNext == ScanNext \/ Next

ScanOrMainSpec == ScanOrMainInit /\ [][ScanOrMainNext]_vars

\* ---------------------------------------------------------------- two runs
\* Lines 131-132: the program has ended and is started a second time on the
\* same input and the same --out path.  The process starts afresh (locals,
\* stdout, stderr); the document and the output file are what the first run
\* left.  prev keeps what the first run reported and wrote.
Rerun ==
  /\ pc = "done"
  /\ run = 1
  /\ run' = 2
  /\ prev' = [stats |-> <<total_candidates, written, skipped>>,
              exit_code |-> exit_code, out |-> out, stdout |-> stdout,
              stderr |-> stderr, scans |-> scans, trail |-> trail]
  /\ pc' = "start"
  /\ start' = 0
  /\ SetScanState(ScanInit(0))
  /\ yielded' = <<>>
  /\ hits' = <<>>
  /\ hx' = 0
  /\ tier' = "none"
  /\ obj' = <<>>
  /\ o' = <<>>
  /\ total_candidates' = 0
  /\ written' = 0
  /\ skipped' = 0
  /\ out_open' = FALSE
  /\ stdout' = <<>>
  /\ stderr' = <<>>
  /\ exit_code' = -1
  /\ trail' = <<>>
  /\ scans' = <<>>
  /\ UNCHANGED <<s, out>>

TwiceNext == Next \/ Rerun

TwiceSpec == Init /\ [][TwiceNext]_vars

\* ------------------------------------------------------------------ claims
\* The string context in which character k (1-based) of txt is read, counted
\* from the start of txt: "out" outside a string literal, "in" inside one,
\* "esc" right after a backslash inside one.
RECURSIVE StrCtx(_, _)
StrCtx(txt, k) ==
  IF k = 1 THEN "out"
  ELSE LET before == StrCtx(txt, k - 1)
           c == txt[k - 1]
       IN  CASE before = "out" -> IF c = QUOTE THEN "in" ELSE "out"
             [] before = "in" -> IF c = BACKSLASH THEN "esc"
                                 ELSE IF c = QUOTE THEN "out" ELSE "in"
             [] before = "esc" -> "in"

\* The number of characters ch of txt outside string context.
CountOutside(txt, ch) ==
  Cardinality({k \in 1..Len(txt) : txt[k] = ch /\ StrCtx(txt, k) = "out"})

\* At the return of a scan that leaves an object open, every candidate
\* yielded ends before the open object starts.
C1_OpenObjectNotYielded ==
  pc = "returned" /\ (depth > 0 \/ in_str) =>
    /\ depth > 0 <=> obj_start >= 0
    /\ obj_start >= 0 =>
         \A k \in 1..Len(yielded) : yielded[k][2] <= obj_start

\* A step that yields reads a '}' outside a string, takes depth from 1 to 0
\* and yields the span from obj_start to that '}'.
C1_YieldStep ==
  yielded' # yielded =>
    /\ ~in_str
    /\ At(s, i) = RBRACE
    /\ depth = 1
    /\ depth' = 0
    /\ obj_start >= start
    /\ yielded' = Append(yielded, <<obj_start, i + 1>>)

\* C1: scan_objects never yields a partial object.  When the scan returns
\* with an object still open (depth > 0, possibly inside an unterminated
\* string), every candidate yielded ends before that object starts; and a
\* candidate is yielded only in a step that reads a '}' outside string
\* context and brings depth from 1 back to 0, the candidate being the span
\* from obj_start to that '}'.
C1_NeverPartial == [][C1_YieldStep]_vars /\ []C1_OpenObjectNotYielded

\* C1 witness: a scan that yielded a candidate and returned inside an
\* unterminated string of an object left open.
C1_Witness ==
  /\ pc = "returned"
  /\ in_str
  /\ depth > 0
  /\ Len(yielded) = 1
  /\ obj_start >= yielded[1][2]

\* A step that reads a character inside a string literal.
C2_StringStep ==
  in_str /\ i' # i =>
    /\ depth' = depth
    /\ obj_start' = obj_start
    /\ yielded' = yielded
    /\ esc => in_str'

\* C2: depth and obj_start change only on characters read while in_str is
\* false.  A step that reads a character inside a string literal leaves
\* depth, obj_start and the candidates yielded unchanged, whatever the
\* character, and the character read right after a backslash (an escaped
\* quote included) does not close the string.
C2_BracesInStringsIgnored == [][C2_StringStep]_vars

\* C2 witness: the object {"\"}" read from offset 0 up to the quote that
\* closes its string: the escaped quote kept the string open, the '}' after
\* it was read inside the string and depth is still 1.
C2_Witness ==
  /\ start = 0
  /\ s = <<LBRACE, QUOTE, BACKSLASH, QUOTE, RBRACE, QUOTE>>
  /\ i = 6
  /\ ~in_str
  /\ depth = 1
  /\ obj_start = 0

\* The brace depth of the characters txt[a..k) counted without regard to
\* strings.
PlainDepth(txt, a, k) ==
  Cardinality({n \in a..(k - 1) : At(txt, n) = LBRACE})
  - Cardinality({n \in a..(k - 1) : At(txt, n) = RBRACE})

\* txt[a..b) is a syntactically balanced object with no string literal in
\* it: it opens with '{', that brace is closed by its last character, and it
\* holds no quote.
BalancedObjectAt(txt, a, b) ==
  /\ 0 <= a
  /\ a < b
  /\ b <= Len(txt)
  /\ At(txt, a) = LBRACE
  /\ At(txt, b - 1) = RBRACE
  /\ \A n \in a..(b - 1) : At(txt, n) # QUOTE
  /\ \A k \in (a + 1)..(b - 1) : PlainDepth(txt, a, k) > 0
  /\ PlainDepth(txt, a, b) = 0

BalancedObjects(txt) ==
  {sp \in (0..Len(txt)) \X (0..Len(txt)) : BalancedObjectAt(txt, sp[1], sp[2])}

\* The balanced objects of txt that lie in no other balanced object.
TopObjects(txt) ==
  {sp \in BalancedObjects(txt) :
     \A other \in BalancedObjects(txt) :
       other[1] <= sp[1] /\ sp[2] <= other[2] => other = sp}

C4_CandidatesBalanced ==
  \A k \in 1..Len(yielded) :
    LET a == yielded[k][1]
        b == yielded[k][2]
        span == Slice(s, a, b)
    IN  /\ start <= a
        /\ a < b
        /\ b <= Len(s)
        /\ span[1] = LBRACE
        /\ span[Len(span)] = RBRACE
        /\ CountOutside(span, LBRACE) = CountOutside(span, RBRACE)

\* C4 witness: a scan started after a stray '}' that yielded the object
\* {"{"}, whose string holds a brace.
C4_Witness ==
  /\ start = 1
  /\ yielded = <<<<1, 6>>>>
  /\ s = <<RBRACE, LBRACE, QUOTE, LBRACE, QUOTE, RBRACE>>

\* ------------------------------------------------------ claims about main
\* The last step taken on a candidate, "" when none was.
Outcome(e) == IF e.steps = <<>> THEN "" ELSE e.steps[Len(e.steps)]

\* The text of a candidate of the log.
Raw(e) == Slice(s, e.span[1], e.span[2])

\* main is past both tiers.
PastTiers == pc \in {"summary", "check"} \/ (pc = "done" /\ exit_code \in {0, 3})

\* The number of records the Anchored tier wrote.
AnchoredWritten ==
  Cardinality({k \in 1..Len(trail) :
                 trail[k].tier = "anchored" /\ Outcome(trail[k]) = "written"})

\* Past both tiers, the fallback scan has run exactly when the Anchored
\* tier wrote nothing.
C5_FallbackIffNothingWritten ==
  PastTiers => (tier = "fallback" <=> AnchoredWritten = 0)

\* The fallback scan starts only at line 110 with written == 0; after an
\* Anchored tier that wrote a record nothing is scanned or counted.
C5_FallbackStep ==
  /\ tier' = "fallback" /\ tier # "fallback" =>
       pc = "fallback" /\ written = 0 /\ start' = 0 /\ i' = 0 /\ pc' = "scan"
  /\ tier = "anchored" /\ written > 0 /\ pc \in {"fallback", "summary", "check"}
       => /\ tier' = "anchored"
          /\ pc' # "scan"
          /\ UNCHANGED <<total_candidates, written, skipped, out, trail>>

\* C5: the Fallback tier runs if and only if the Anchored tier ended with
\* written == 0.  Past both tiers, the fallback scan has run exactly when
\* the Anchored tier wrote nothing; the fallback scan starts only from the
\* test of line 110 with written == 0, at offset 0; and once the Anchored
\* tier has ended with a record written, no scan starts and the counters
\* and the output no longer change.
C5_FallbackOnlyAfterEmptyAnchored ==
  [][C5_FallbackStep]_vars /\ []C5_FallbackIffNothingWritten

\* C5 witness: a finished run with an anchor whose candidate was skipped,
\* after which the fallback scan ran.
C5_Witness ==
  /\ pc = "done"
  /\ tier = "fallback"
  /\ hits # <<>>
  /\ \E k \in 1..Len(trail) :
       /\ trail[k].tier = "anchored"
       /\ Outcome(trail[k]) = "cleanup, loads raised, skipped"

\* The document is one main takes for an HTML error page (line 81).
IsHtmlPage(doc) == StartsWith(LStrip(doc), HTML_DECL)

\* C6: a run on a non-empty, non-HTML document ends in success if and only
\* if written >= 1, whatever skipped is, and in the "no records recovered"
\* failure (exit code 3) if and only if written == 0; the empty input ends
\* with exit code 1 and the HTML page with exit code 2, each failure with a
\* message of its own.
C6_ExitStatus ==
  pc = "done" =>
    /\ exit_code \in {0, 1, 2, 3}
    /\ exit_code = 1 <=> s = <<>>
    /\ exit_code = 2 <=> s # <<>> /\ IsHtmlPage(s)
    /\ s # <<>> /\ ~IsHtmlPage(s) =>
         /\ exit_code = 0 <=> written >= 1
         /\ exit_code = 3 <=> written = 0
    /\ stderr = CASE exit_code = 0 -> <<>>
                  [] exit_code = 1 -> <<"Empty input.">>
                  [] exit_code = 2 -> <<"Looks like an HTML error page">>
                  [] exit_code = 3 -> <<"No activity objects recovered.">>

\* C6 witness: a successful run in which a candidate was skipped.
C6_Witness ==
  /\ pc = "done"
  /\ exit_code = 0
  /\ written >= 1
  /\ skipped >= 1

\* C7: on an empty document, or one that begins with the HTML declaration,
\* the run can only take its failure exit: the output is never opened, no
\* scan is started, no counter is changed and no line is written.
C7_InputErrorsFailFirst ==
  s = <<>> \/ StartsWith(s, HTML_DECL) =>
    /\ pc \in {"start", "done"}
    /\ pc = "start" => ENABLED (ExitEmpty \/ ExitHtml) /\ ~ENABLED OpenOut
    /\ pc = "done" => exit_code = IF s = <<>> THEN 1 ELSE 2
    /\ ~out_open
    /\ out = <<>>
    /\ tier = "none"
    /\ hits = <<>>
    /\ yielded = <<>>
    /\ trail = <<>>
    /\ total_candidates = 0 /\ written = 0 /\ skipped = 0
    /\ stdout = <<>>

\* C7 witness: the run on an HTML page that holds an activity has failed.
C7_Witness ==
  /\ pc = "done"
  /\ exit_code = 2
  /\ StartsWith(s, HTML_DECL)
  /\ looks_like_activity(s)

\* C8 as claimed: on every failure exit the summary line was printed
\* before the exit.
C8_SummaryBeforeEveryFailure ==
  exit_code \in {1, 2, 3} => Len(stdout) = 1

\* C8 as amended: on the "no records recovered" exit the summary line, with
\* the final counters, was printed before the exit; on the empty-input and
\* HTML exits no summary is printed.
C8_SummaryBeforeNoRecordsExit ==
  /\ exit_code = 3 => stdout = <<<<total_candidates, written, skipped>>>>
  /\ exit_code \in {1, 2} => stdout = <<>>

\* C8 witness: a run that failed with no record recovered after skipping a
\* candidate, its summary printed.
C8_Witness ==
  /\ exit_code = 3
  /\ Len(stdout) = 1
  /\ stdout[1][1] >= 1
  /\ stdout[1][3] >= 1

IsPrefix(a, b) == Len(a) <= Len(b) /\ SubSeq(b, 1, Len(a)) = a

\* The sequences of steps main may take on one candidate.
FullSteps ==
  {<<"rejected">>,
   <<"accepted", "loads ok", "written">>,
   <<"accepted", "loads raised", "cleanup, loads ok", "written">>,
   <<"accepted", "loads raised", "cleanup, loads raised, skipped">>}

\* The steps taken on each candidate, the skipped counter and the
\* candidates of the last scan.
C9_Trail ==
  /\ \A k \in 1..Len(trail) :
       LET e == trail[k] IN
         /\ \E f \in FullSteps : IsPrefix(e.steps, f)
         /\ k < Len(trail) => e.steps \in FullSteps
         /\ Len(e.steps) >= 2 =>
              (e.steps[2] = "loads raised" <=> ~JsonLoads(Raw(e)).ok)
         /\ Len(e.steps) >= 3 /\ e.steps[3] # "written" =>
              ~JsonLoads(Raw(e)).ok
         /\ Outcome(e) = "cleanup, loads raised, skipped"
              => ~JsonLoads(light_cleanup(Raw(e))).ok
  /\ pc # "start" /\ exit_code \notin {1, 2} =>
       skipped = Cardinality({k \in 1..Len(trail) :
                    Outcome(trail[k]) = "cleanup, loads raised, skipped"})
  /\ pc = "done" /\ (tier = "fallback" \/ start > 0) =>
       /\ yielded = ScanAll(s, start)
       /\ Len(yielded) <= Len(trail)
       /\ \A j \in 1..Len(yielded) :
            LET e == trail[Len(trail) - Len(yielded) + j] IN
              e.span = yielded[j] /\ e.steps \in FullSteps

\* The step that counts a candidate as skipped.
C9_SkipStep ==
  skipped' # skipped =>
    /\ pc = "repair"
    /\ skipped' = skipped + 1
    /\ pc' = "scan"
    /\ UNCHANGED <<out, written, exit_code, scanVars, hx, tier, stdout>>

\* C9: light_cleanup is applied to a candidate only after strict parsing of
\* its raw text failed, strict parsing is retried once, on the repaired
\* text, and a second failure adds one to skipped, writes nothing and does
\* not end the run: the scan goes on from where it was, and at the end of
\* the run every candidate of the last scan has been processed.
C9_RepairOnceThenSkip == [][C9_SkipStep]_vars /\ []C9_Trail

\* C9 witness: a finished run in which a candidate was skipped and the next
\* candidate of the same scan was written.
C9_Witness ==
  /\ pc = "done"
  /\ \E k \in 1..(Len(trail) - 1) :
       /\ Outcome(trail[k]) = "cleanup, loads raised, skipped"
       /\ trail[k + 1].tier = trail[k].tier
       /\ trail[k + 1].span[1] >= trail[k].span[2]
       /\ Outcome(trail[k + 1]) = "written"

\* key occurs in txt.
HasSub(txt, key) ==
  \E j \in 1..(Len(txt) - Len(key) + 1) :
    SubSeq(txt, j, j + Len(key) - 1) = key

\* txt holds "activityType" or "activityId", and "splitSummaries".
IsTargetText(txt) ==
  /\ HasSub(txt, KEY_ACTIVITY_TYPE) \/ HasSub(txt, KEY_ACTIVITY_ID)
  /\ HasSub(txt, KEY_SPLIT_SUMMARIES)

\* The classifier's verdicts against the substring test.
C10_Classified ==
  /\ looks_like_activity(s) <=> IsTargetText(s)
  /\ looks_like_activity(obj) <=> IsTargetText(obj)
  /\ \A k \in 1..Len(trail) :
       LET e == trail[k] IN
         e.steps # <<>> =>
           /\ e.steps[1] = "accepted" <=> IsTargetText(Raw(e))
           /\ e.steps[1] = "rejected" <=> ~IsTargetText(Raw(e))
           /\ e.steps[1] = "rejected" => e.steps = <<"rejected">>

\* The step taken on a candidate that fails the substring test.
C10_RejectStep ==
  pc = "classify" /\ ~IsTargetText(obj) =>
    /\ pc' = "scan"
    /\ UNCHANGED <<o, written, skipped, out, total_candidates>>

\* C10: looks_like_activity(txt) is true if and only if txt holds
\* "activityType" or "activityId" and also "splitSummaries"; a candidate is
\* accepted exactly when that holds of its text, and a rejected candidate is
\* never parsed, written or counted as skipped.
C10_ClassifierDecides == [][C10_RejectStep]_vars /\ []C10_Classified

\* C10 witness: the run on the complete export whose record has the
\* container key and "activityId" but no "splitSummaries": the fallback scan
\* yielded the wrapper object and the classifier rejected it.
C10_Witness ==
  /\ pc = "done"
  /\ s = WrapperDoc
  /\ trail # <<>>
  /\ trail[Len(trail)] = [tier |-> "fallback", start |-> 0,
                          span |-> <<0, Len(s)>>, steps |-> <<"rejected">>]

\* -------------------------------------------------------------- RepairSpec
\* The repair retry of lines 102 and 119 on its own: s is a candidate whose
\* strict parse raised, obj becomes light_cleanup(s) and o the value parsed
\* from it.  The candidates are well-formed objects with one control
\* character inserted in a string value.
RepairBases ==
  {<<
      "{", "\"", "a", "c", "t", "i", "v", "i", "t", "y", "T", "y", "p", "e",
      "\"", ":", "\"", "r", "u", "n", "\"", ",", "\"", "s", "p", "l", "i",
      "t", "S", "u", "m", "m", "a", "r", "i", "e", "s", "\"", ":", "[", "]",
      "}" >>,
   <<
      "{", "\"", "a", "\"", ":", "\"", "x", "\\", "\"", "y", "\"", ",", "\"",
      "b", "\"", ":", "\"", "5", "0", "%", ",", "\"", "}" >>,
   <<
      "{", "\"", "u", "n", "i", "t", "\"", ":", "\"", "C", "E", "L", "C",
      "I", "U", "S", "\"", "}" >>}

ControlChars == {SOH, "\r", "\n", "\t"}

\* The offsets p of txt such that a character inserted before txt[p] lies
\* inside a string that is the value of a key.
ValueOffsets(txt) ==
  {p \in 1..(Len(txt) - 1) :
     /\ StrCtx(txt, p + 1) \in {"in", "esc"}
     /\ LET opens == {j \in 1..p : txt[j] = QUOTE /\ StrCtx(txt, j) = "out"}
            open == CHOOSE j \in opens : \A m \in opens : m <= j
        IN  open > 1 /\ txt[open - 1] = ":"}

Inject(txt, p, c) ==
  SubSeq(txt, 1, p) \o <<c>> \o SubSeq(txt, p + 1, Len(txt))

RepairCandidates ==
  UNION {{Inject(b, p, c) : p \in ValueOffsets(b), c \in ControlChars} :
           b \in RepairBases}

RepairInit ==
  /\ s \in RepairCandidates
  /\ pc = "candidate"
  /\ start = 0
  /\ i = 0
  /\ in_str = FALSE
  /\ esc = FALSE
  /\ depth = 0
  /\ obj_start = -1
  /\ yielded = <<>>
  /\ MainIdle

\* Lines 60-70: light_cleanup(obj).
RepairCleanup ==
  /\ pc = "candidate"
  /\ obj' = light_cleanup(s)
  /\ pc' = "cleaned"
  /\ UNCHANGED <<s, histVars, scanVars, hits, hx, tier, o, total_candidates,
                 written, skipped, out, out_open, stdout, stderr, exit_code,
                 trail>>

\* Lines 102 and 119: json.loads of the repaired text returns.
RepairLoads ==
  /\ pc = "cleaned"
  /\ JsonLoads(obj).ok
  /\ o' = JsonLoads(obj).v
  /\ pc' = "loaded"
  /\ UNCHANGED <<s, histVars, scanVars, hits, hx, tier, obj,
                 total_candidates, written, skipped, out, out_open, stdout,
                 stderr, exit_code, trail>>

\* Lines 102-103 and 119-120: json.loads of the repaired text raises.
RepairLoadsRaises ==
  /\ pc = "cleaned"
  /\ ~JsonLoads(obj).ok
  /\ pc' = "raised"
  /\ UNCHANGED <<s, histVars, scanVars, hits, hx, tier, obj, o,
                 total_candidates, written, skipped, out, out_open, stdout,
                 stderr, exit_code, trail>>

RepairNext == RepairCleanup \/ RepairLoads \/ RepairLoadsRaises

RepairSpec == RepairInit /\ [][RepairNext]_vars

\* ----------------------------------------------------- claims C11 to C20
\* At the end of a second run on the same input, what the run reported and
\* wrote is what the first run reported and wrote: the output file holds the
\* lines of the first run once, not twice.
C11_SecondRunSame ==
  run = 2 /\ pc = "done" =>
    /\ exit_code = prev.exit_code
    /\ <<total_candidates, written, skipped>> = prev.stats
    /\ stdout = prev.stdout
    /\ stderr = prev.stderr
    /\ out = prev.out
    /\ Len(out) = written
    /\ trail = prev.trail
    /\ scans = prev.scans

\* Two scan_objects calls on the same start offset, in one run or in two,
\* yielded the same candidates.
C11_FreshScanSame ==
  LET calls == IF run = 2 THEN prev.scans \o scans ELSE scans IN
    \A j, k \in 1..Len(calls) :
      calls[j].start = calls[k].start => calls[j].cands = calls[k].cands

\* C11: the pipeline is deterministic and idempotent.  A second run on the
\* same input ends with the same (candidates_seen, written, skipped), the
\* same exit status and the same sequence of output lines as the first, the
\* output of the second run replacing that of the first; and every
\* scan_objects call on the same text and start offset yields the same
\* candidate sequence.
C11_Idempotent == C11_SecondRunSame /\ C11_FreshScanSame

\* C11 witness: a second run has ended after a first run that wrote a record
\* and skipped another; the output file holds the lines of one run.
C11_Witness ==
  /\ run = 2
  /\ pc = "done"
  /\ written >= 1
  /\ skipped >= 1
  /\ Len(prev.out) = written
  /\ out = prev.out
  /\ Len(scans) >= 1

\* The steps main takes on each kind of complete object: a well-formed
\* activity, an activity with a control character in a string, an activity
\* that parses neither as is nor repaired, a non-activity object.
ItemSteps ==
  <<<<"accepted", "loads ok", "written">>,
    <<"accepted", "loads raised", "cleanup, loads ok", "written">>,
    <<"accepted", "loads raised", "cleanup, loads raised, skipped">>,
    <<"rejected">>>>

ActOkLine ==
  <<
    "{", "\"", "a", "c", "t", "i", "v", "i", "t", "y", "I", "d", "\"", ":",
    " ", "1", ",", " ", "\"", "s", "p", "l", "i", "t", "S", "u", "m", "m",
    "a", "r", "i", "e", "s", "\"", ":", " ", "[", "]", "}", "\n" >>

ActCtlLine ==
  <<
    "{", "\"", "a", "c", "t", "i", "v", "i", "t", "y", "T", "y", "p", "e",
    "\"", ":", " ", "\"", "r", "\"", ",", " ", "\"", "s", "p", "l", "i",
    "t", "S", "u", "m", "m", "a", "r", "i", "e", "s", "\"", ":", " ", "[",
    "]", "}", "\n" >>

ExampleLine ==
  <<
    "{", "\"", "a", "c", "t", "i", "v", "i", "t", "y", "I", "d", "\"", ":",
    " ", "1", ",", " ", "\"", "a", "c", "t", "i", "v", "i", "t", "y", "T",
    "y", "p", "e", "\"", ":", " ", "\"", "r", "u", "n", "n", "i", "n", "g",
    "\"", ",", " ", "\"", "s", "p", "l", "i", "t", "S", "u", "m", "m", "a",
    "r", "i", "e", "s", "\"", ":", " ", "[", "{", "\"", "x", "\"", ":",
    " ", "1", "}", "]", "}", "\n" >>

\* The output lines a sequence of complete objects gives rise to.
RECURSIVE ItemLines(_)
ItemLines(it) ==
  IF it = <<>> THEN <<>>
  ELSE (CASE Head(it) = 1 -> <<ActOkLine>>
          [] Head(it) = 2 -> <<ActCtlLine>>
          [] OTHER -> <<>>) \o ItemLines(Tail(it))

\* The offset in TruncText(c) of the k-th complete object.
RECURSIVE ItemOffset(_, _)
ItemOffset(c, k) ==
  IF k = 1 THEN Len(TruncHead)
  ELSE ItemOffset(c, k - 1) + Len(Items[c.items[k - 1]]) + 1

\* The Anchored tier on the truncated export c: one anchor, one scan from
\* just past the "[", one candidate per complete object, each at its span
\* and treated after its kind, none for the tail; the lines of the objects
\* written, in order.
C12_AnchoredOn(c) ==
  LET anch == SelectSeq(trail, LAMBDA e : e.tier = "anchored") IN
    /\ hits = <<1>>
    /\ Len(anch) = Len(c.items)
    /\ \A k \in 1..Len(anch) :
         /\ anch[k].start = Len(TruncHead)
         /\ anch[k].span = <<ItemOffset(c, k),
                             ItemOffset(c, k) + Len(Items[c.items[k]])>>
         /\ anch[k].steps = ItemSteps[c.items[k]]
    /\ out = ItemLines(c.items)
    /\ written = Len(ItemLines(c.items))
    /\ skipped = Cardinality({k \in 1..Len(c.items) : c.items[k] = 3})

\* The end-to-end example: two candidates, the activity written, the
\* non-activity rejected.
C12_Example ==
  pc = "done" /\ s = ExampleDoc =>
    /\ tier = "anchored"
    /\ total_candidates = 2
    /\ written = 1
    /\ skipped = 0
    /\ out = <<ExampleLine>>
    /\ exit_code = 0

\* C12 as claimed: on every truncated export the Anchored tier writes the
\* complete target records, rejects the complete non-target objects, yields
\* nothing for the tail, and the Fallback tier is not entered.
C12_TruncatedNeverFallback ==
  /\ pc = "done" =>
       \A c \in TruncCases :
         s = TruncText(c) => C12_AnchoredOn(c) /\ tier = "anchored"
  /\ C12_Example

\* C12: on a truncated export (one container key, the array and the
\* enclosing object not closed) the Anchored tier, scanning from just past
\* the "[", yields one candidate per complete object and none for the
\* unterminated tail; it writes every complete target record that parses, as
\* is or repaired, counts as skipped one that parses neither way, and rejects
\* the complete non-target objects.  When a record was written the Fallback
\* tier is not entered; when none was, it is entered, yields nothing (the
\* enclosing object is never closed) and the run fails with exit code 3.  On
\* the example document written = 1, skipped = 0 and the output is one line.
C12_TruncatedExport ==
  /\ pc = "done" =>
       \A c \in TruncCases :
         s = TruncText(c) =>
           /\ C12_AnchoredOn(c)
           /\ written > 0 => tier = "anchored" /\ exit_code = 0
           /\ written = 0 =>
                /\ tier = "fallback"
                /\ exit_code = 3
                /\ scans[Len(scans)] =
                     [tier |-> "fallback", start |-> 0, cands |-> <<>>]
           /\ total_candidates = Len(c.items)
  /\ C12_Example

\* C12 witness: the run on the truncated export that holds a well-formed
\* activity, a non-activity object and a cut activity has ended: one record
\* written, two candidates seen, no fallback scan.
C12_Witness ==
  /\ pc = "done"
  /\ s = TruncText([items |-> <<1, 4>>, tail |-> 2])
  /\ written = 1
  /\ total_candidates = 2
  /\ tier = "anchored"

\* The characters of a key, without its quotes.
KeyName(key) == SubSeq(key, 2, Len(key) - 1)

\* The parsed value v is a target record: an object with the key activityId
\* or activityType, and the key splitSummaries, among its own keys.
IsTargetRecord(v) ==
  /\ v[1] = "obj"
  /\ \E n \in 1..Len(v[2]) :
       v[2][n][1] \in {KeyName(KEY_ACTIVITY_ID), KeyName(KEY_ACTIVITY_TYPE)}
  /\ \E n \in 1..Len(v[2]) : v[2][n][1] = KeyName(KEY_SPLIT_SUMMARIES)

\* The spans of txt that are well-formed target-shaped objects.
TargetObjects(txt) ==
  LET opens == {a \in 0..(Len(txt) - 1) : At(txt, a) = LBRACE}
      closes == {b \in 1..Len(txt) : At(txt, b - 1) = RBRACE}
  IN  {sp \in opens \X closes :
         /\ sp[1] < sp[2]
         /\ JsonLoads(Slice(txt, sp[1], sp[2])).ok
         /\ IsTargetRecord(JsonLoads(Slice(txt, sp[1], sp[2])).v)}

\* C13: on a document that is neither empty nor an HTML page, has no
\* occurrence of the container key and holds exactly one well-formed
\* target-shaped object, wherever it lies, the Anchored tier writes nothing
\* and the Fallback tier writes exactly one record, that object.
C13_FallbackWritesTheTarget ==
  /\ pc = "done"
  /\ exit_code \in {0, 3}
  /\ ~HasSub(s, ANCHOR_KEY)
  /\ Cardinality(TargetObjects(s)) = 1
  => /\ AnchoredWritten = 0
     /\ tier = "fallback"
     /\ written = 1
     /\ \E sp \in TargetObjects(s) :
          out = <<JsonDumps(JsonLoads(Slice(s, sp[1], sp[2])).v) \o <<"\n">>>>

\* The run on the activity nested in another object: the fallback scan
\* yields the enclosing object and main writes it as the record.
C13_NestedWritesWrapper ==
  pc = "done" /\ s = NestedDoc =>
    /\ TargetObjects(s) = {<<8, Len(s) - 1>>}
    /\ trail = <<[tier |-> "fallback", start |-> 0, span |-> <<0, Len(s)>>,
                  steps |-> <<"accepted", "loads ok", "written">>]>>
    /\ out # <<ActOkLine>>

\* The offset (1-based) of the control character of txt.
InjectedAt(txt) == CHOOSE k \in 1..Len(txt) : BelowSpace(txt[k])

\* txt with its control character removed by hand.
HandCleaned(txt) ==
  SubSeq(txt, 1, InjectedAt(txt) - 1)
  \o SubSeq(txt, InjectedAt(txt) + 1, Len(txt))

\* The patterns light_cleanup rewrites (lines 67 and 69).
RewritePatterns ==
  {CELCIUS, <<",", "%">>, <<"%", ",">>, <<"%", "}">>, <<"{", "%">>}

\* The output of light_cleanup holds no character below space other than
\* newline and tab.
C14_OnlyNewlineAndTabLeft ==
  pc \in {"cleaned", "loaded", "raised"} =>
    \A k \in 1..Len(obj) : BelowSpace(obj[k]) => obj[k] \in {"\n", "\t"}

\* C14 as claimed: whatever the control character inserted in a string value
\* of a well-formed candidate, strict parsing of the repaired text succeeds
\* and gives the value parsed from the hand-cleaned candidate.
C14_RoundTripAnyControl ==
  /\ pc \in {"loaded", "raised"} =>
       /\ pc = "loaded"
       /\ JsonLoads(HandCleaned(s)).ok
       /\ o = JsonLoads(HandCleaned(s)).v
  /\ C14_OnlyNewlineAndTabLeft

\* C14 as amended: the same for a control character other than newline and
\* tab, inserted in a candidate whose hand-cleaned text holds none of the
\* patterns light_cleanup rewrites; and the output of light_cleanup holds no
\* character below space other than newline and tab.
C14_RoundTripStrippedControl ==
  /\ /\ pc \in {"loaded", "raised"}
     /\ s[InjectedAt(s)] \notin {"\n", "\t"}
     /\ \A pat \in RewritePatterns : ~HasSub(HandCleaned(s), pat)
     => /\ pc = "loaded"
        /\ obj = HandCleaned(s)
        /\ JsonLoads(HandCleaned(s)).ok
        /\ o = JsonLoads(HandCleaned(s)).v
  /\ C14_OnlyNewlineAndTabLeft

\* C14 witness: the candidate {"activityType":"run","splitSummaries":[]} with
\* U+0001 inserted between the r and the u of its string value has been
\* repaired and parsed, and the value is that of the hand-cleaned text.
C14_Witness ==
  /\ pc = "loaded"
  /\ s[InjectedAt(s)] = SOH
  /\ HasSub(s, <<"r", SOH, "u", "n">>)
  /\ o = JsonLoads(HandCleaned(s)).v

\* The string context after character c read in context ctx.
CtxStep(ctx, c) ==
  CASE ctx = "out" -> IF c = QUOTE THEN "in" ELSE "out"
    [] ctx = "in" -> IF c = BACKSLASH THEN "esc"
                     ELSE IF c = QUOTE THEN "out" ELSE "in"
    [] ctx = "esc" -> "in"

\* The effect of reading txt[lo:hi] on the string context, as a function of
\* the context before it.
RECURSIVE CtxRange(_, _, _)
CtxRange(txt, lo, hi) ==
  IF lo >= hi THEN [ctx \in {"out", "in", "esc"} |-> ctx]
  ELSE IF hi = lo + 1
    THEN [ctx \in {"out", "in", "esc"} |-> CtxStep(ctx, At(txt, lo))]
  ELSE LET mid == (lo + hi) \div 2
           left == CtxRange(txt, lo, mid)
           right == CtxRange(txt, mid, hi)
       IN  [ctx \in {"out", "in", "esc"} |-> right[left[ctx]]]

\* The character at offset k is read outside string context by a reader
\* that starts at offset from.
OutsideFrom(txt, from, k) == CtxRange(txt, from, k)["out"] = "out"

\* The offset of the "]" that closes the array opened by the "[" at offset
\* arr_l, -1 when the array is not closed.
ArrayEnd(txt, arr_l) ==
  LET opens(k) ==
        {n \in arr_l..k : At(txt, n) = "[" /\ OutsideFrom(txt, arr_l, n)}
      closes(k) ==
        {n \in arr_l..k : At(txt, n) = "]" /\ OutsideFrom(txt, arr_l, n)}
      ends == {k \in (arr_l + 1)..(Len(txt) - 1) :
                 /\ At(txt, k) = "]"
                 /\ OutsideFrom(txt, arr_l, k)
                 /\ Cardinality(opens(k)) = Cardinality(closes(k))}
  IN  IF ends = {} THEN -1 ELSE CHOOSE k \in ends : \A m \in ends : k <= m

\* C15: in the Anchored tier every candidate that lies after the closing "]"
\* of the array of the anchor being scanned is rejected by the classifier, so
\* that no object outside the anchored array is written by that anchor's
\* scan.
C15_PastArrayAllRejected ==
  \A k \in 1..Len(trail) :
    LET e == trail[k] IN
      /\ e.tier = "anchored"
      /\ e.steps # <<>>
      /\ ArrayEnd(s, e.start - 1) >= 0
      /\ e.span[1] > ArrayEnd(s, e.start - 1)
      => e.steps = <<"rejected">>

\* The run on the export with an empty array and an activity under another
\* key: the anchor's scan yields that activity and main writes it.
C15_SiblingWritten ==
  pc = "done" /\ s = SiblingDoc =>
    /\ ArrayEnd(s, Len(TruncHead) - 1) = Len(TruncHead)
    /\ trail = <<[tier |-> "anchored", start |-> Len(TruncHead),
                  span |-> <<Len(TruncHead) + 6, Len(s) - 1>>,
                  steps |-> <<"accepted", "loads ok", "written">>]>>
    /\ out = <<ActOkLine>>

\* The offsets at which the container key occurs in txt.
KeyOffsets(txt) ==
  {j \in 0..(Len(txt) - Len(ANCHOR_KEY)) :
     SubSeq(txt, j + 1, j + Len(ANCHOR_KEY)) = ANCHOR_KEY}

\* The offset of the first "[" at or after offset h, -1 when there is none.
FirstBracket(txt, h) ==
  LET at == {k \in h..(Len(txt) - 1) : At(txt, k) = "["} IN
    IF at = {} THEN -1 ELSE CHOOSE k \in at : \A m \in at : k <= m

\* The scans the Anchored tier has run to exhaustion.
AnchoredScans == SelectSeq(scans, LAMBDA c : c.tier = "anchored")

\* Past the Anchored tier, one scan was made per occurrence of the container
\* key that has a "[" after it, from just past that "[", in the order of the
\* occurrences.
C16_EveryAnchorScanned ==
  pc \in {"fallback", "summary", "check"} \/ (pc = "scan" /\ tier = "fallback")
  \/ (pc = "done" /\ exit_code \in {0, 3}) =>
    LET keys == {h \in KeyOffsets(s) : FirstBracket(s, h) >= 0} IN
      /\ Len(AnchoredScans) = Cardinality(keys)
      /\ \A h \in keys :
           AnchoredScans[Cardinality({g \in keys : g <= h})].start
             = FirstBracket(s, h) + 1

\* The brace depth, outside string context, of the characters txt[from..to)
\* read from offset from.
BraceDepthFrom(txt, from, to) ==
  Cardinality({n \in from..(to - 1) :
                 At(txt, n) = LBRACE /\ OutsideFrom(txt, from, n)})
  - Cardinality({n \in from..(to - 1) :
                   At(txt, n) = RBRACE /\ OutsideFrom(txt, from, n)})

IsSuffix(a, b) ==
  Len(a) <= Len(b) /\ SubSeq(b, Len(b) - Len(a) + 1, Len(b)) = a

\* When the scan of an earlier anchor reaches the start of the scan of a
\* later anchor outside a string and at brace depth 0, every candidate of the
\* later scan is a candidate of the earlier scan too.
C16_LaterCandidatesSeenTwice ==
  \A j, k \in 1..Len(AnchoredScans) :
    /\ j < k
    /\ AnchoredScans[j].start < AnchoredScans[k].start
    /\ OutsideFrom(s, AnchoredScans[j].start, AnchoredScans[k].start)
    /\ BraceDepthFrom(s, AnchoredScans[j].start, AnchoredScans[k].start) = 0
    => IsSuffix(AnchoredScans[k].cands, AnchoredScans[j].cands)

\* Every candidate yielded is counted and every record parsed is written,
\* whether or not its span was met before.
C16_NoDeduplication ==
  out_open =>
    /\ total_candidates = Len(trail)
    /\ written = Cardinality({k \in 1..Len(trail) :
                                Outcome(trail[k]) = "written"})
    /\ Len(out) = written
    /\ \A j, k \in 1..Len(trail) :
         /\ trail[j].span = trail[k].span
         /\ trail[j].steps \in FullSteps
         /\ trail[k].steps \in FullSteps
         => trail[j].steps = trail[k].steps

\* The step that ends a scan is taken at the end of the document.
C16_ScanToEndStep == scans' # scans /\ scans' # <<>> => i' = Len(s)

InOrder(cands) ==
  /\ \A k \in 1..Len(cands) : cands[k][1] < cands[k][2]
  /\ \A k \in 1..(Len(cands) - 1) :
       /\ cands[k][1] < cands[k + 1][1]
       /\ cands[k][2] <= cands[k + 1][1]

\* The candidates of the current scan_objects call and of the calls logged.
C17_CandidatesInOrder ==
  /\ InOrder(yielded)
  /\ \A k \in 1..Len(yielded) : start <= yielded[k][1] /\ yielded[k][2] <= i
  /\ \A n \in 1..Len(scans) : InOrder(scans[n].cands)

\* The line main writes for a candidate of the log that it wrote.
LineOf(e) ==
  (IF e.steps[2] = "loads ok"
     THEN JsonDumps(JsonLoads(Raw(e)).v)
     ELSE JsonDumps(JsonLoads(light_cleanup(Raw(e))).v)) \o <<"\n">>

\* The candidates are processed in the order of discovery: anchors from left
\* to right, the fallback scan after them, the candidates of one scan from
\* left to right; and the lines of the output are those of the candidates
\* written, in that order.
C17_OutputInDiscoveryOrder ==
  /\ \A k \in 1..(Len(hits) - 1) : hits[k] < hits[k + 1]
  /\ \A k \in 1..(Len(trail) - 1) :
       LET e == trail[k]
           f == trail[k + 1]
       IN  /\ e.tier = "fallback" => f.tier = "fallback"
           /\ e.tier = f.tier => e.start <= f.start
           /\ e.tier = f.tier /\ e.start = f.start /\ e.span[1] < f.span[1]
                => e.span[2] <= f.span[1]
  /\ LET wr == SelectSeq(trail, LAMBDA e : Outcome(e) = "written") IN
       /\ Len(out) = Len(wr)
       /\ \A n \in 1..Len(wr) : out[n] = LineOf(wr[n])

\* A step that changes the output appends one line to it.
C17_AppendStep ==
  out' # out => Len(out') = Len(out) + 1 /\ SubSeq(out', 1, Len(out)) = out

\* C17: within one scan_objects call the candidates have strictly increasing
\* start offsets and do not overlap; within a run the output only grows, one
\* line appended at a time, and its lines are in the order in which the
\* candidates were discovered, the anchors taken from left to right.
C17_Ordered ==
  /\ [][C17_AppendStep]_vars
  /\ [](C17_CandidatesInOrder /\ C17_OutputInDiscoveryOrder)

\* C17 witness: a finished run that wrote two different lines from two
\* candidates of one scan.
C17_Witness ==
  /\ pc = "done"
  /\ Len(out) = 2
  /\ out[1] # out[2]
  /\ Len(yielded) >= 2
  /\ \E k \in 1..(Len(trail) - 1) :
       /\ trail[k].start = trail[k + 1].start
       /\ Outcome(trail[k]) = "written"
       /\ Outcome(trail[k + 1]) = "written"

\* The number of candidates of the log whose last step is step.
CountOutcome(step) ==
  Cardinality({k \in 1..Len(trail) : Outcome(trail[k]) = step})

\* The counters against the log of the candidates and the output.
C18_Counters ==
  /\ total_candidates = Len(trail)
  /\ written = CountOutcome("written")
  /\ skipped = CountOutcome("cleanup, loads raised, skipped")
  /\ written + skipped + CountOutcome("rejected") <= total_candidates
  /\ pc \in {"scan", "hits", "fallback", "summary", "check"}
       => written + skipped + CountOutcome("rejected") = total_candidates
  /\ written + skipped <= total_candidates
  /\ Len(out) = written

\* A step changes the counters by one candidate at most: a candidate yielded
\* adds one to candidates_seen and to nothing else; a candidate written adds
\* one to written and one line to the output; a candidate skipped adds one
\* to skipped; a rejection changes no counter; the start of the fallback scan
\* changes no counter.
C18_CounterStep ==
  /\ total_candidates' \in {total_candidates, total_candidates + 1}
  /\ written' \in {written, written + 1}
  /\ skipped' \in {skipped, skipped + 1}
  /\ (total_candidates' - total_candidates) + (written' - written)
       + (skipped' - skipped) <= 1
  /\ total_candidates' # total_candidates <=> Len(trail') = Len(trail) + 1
  /\ total_candidates' # total_candidates =>
       /\ pc = "scan"
       /\ Len(yielded') = Len(yielded) + 1
  /\ written' # written => pc = "write" /\ Len(out') = Len(out) + 1
  /\ skipped' # skipped => pc = "repair"
  /\ pc = "classify" /\ pc' = "scan" =>
       UNCHANGED <<total_candidates, written, skipped, out>>
  /\ tier' # tier => UNCHANGED <<total_candidates, written, skipped, out>>

\* C18: each candidate yielded, in either tier, adds exactly one to
\* candidates_seen and at most one to written or skipped, never to both and
\* to neither when the classifier rejects it; the counters never decrease
\* and are not reset between the tiers; in every reachable state
\* written + skipped <= candidates_seen and the output has written lines.
C18_CounterAccounting == [][C18_CounterStep]_vars /\ []C18_Counters

\* C18 witness: a finished run whose Anchored tier skipped a candidate and
\* whose fallback scan added to the same counters: two candidates seen and
\* two skipped in all, one in each tier.
C18_Witness ==
  /\ pc = "done"
  /\ tier = "fallback"
  /\ Cardinality({k \in 1..Len(trail) : trail[k].tier = "anchored"}) = 1
  /\ Cardinality({k \in 1..Len(trail) : trail[k].tier = "fallback"}) = 1
  /\ total_candidates = 2
  /\ skipped = 2
  /\ written = 0

\* The spans cands moved by d characters.
Shift(cands, d) ==
  [k \in 1..Len(cands) |-> <<cands[k][1] + d, cands[k][2] + d>>]

\* C19: in scan_objects the brace depth is never negative; a "}" read
\* outside string context at depth 0 does not take depth below 0 and does not
\* change which later objects are yielded: a text that begins with a stray
\* "}" yields the candidates of the text without it.
C19_DepthNeverNegative ==
  /\ depth >= 0
  /\ pc = "returned" /\ start = 0 /\ s # <<>> /\ s[1] = RBRACE =>
       yielded = Shift(ScanAll(Tail(s), 0), 1)

\* The scan of }{} from offset 0: depth is -1 after the stray "}", the "{"
\* read at depth -1 sets no obj_start, and the scan returns at depth -1 with
\* nothing yielded.
C19_StrayBraceHidesObject ==
  pc = "returned" /\ start = 0 /\ s = <<RBRACE, LBRACE, RBRACE>> =>
    depth = -1 /\ obj_start = -1 /\ yielded = <<>>

\* The number of scan_objects calls main has made: those that ran to
\* exhaustion and the one in progress.
ScansStarted ==
  Len(scans)
  + (IF pc \in {"scan", "classify", "parse", "repair", "write"} THEN 1 ELSE 0)

\* The list of find_all is finite and strictly increasing, the scanner's
\* index and candidates are bounded by the text, and main makes at most one
\* scan per anchor and one fallback scan.
C20_Bounded ==
  /\ Len(hits) <= Len(s)
  /\ \A k \in 1..Len(hits) : 0 <= hits[k] /\ hits[k] < Len(s)
  /\ \A k \in 1..(Len(hits) - 1) : hits[k] < hits[k + 1]
  /\ start <= i
  /\ i <= Len(s)
  /\ 2 * Len(yielded) <= i - start
  /\ hx <= Len(hits)
  /\ ScansStarted <= Len(hits) + 1
  /\ Cardinality({k \in 1..Len(scans) : scans[k].tier = "anchored"})
       <= Len(hits)
  /\ Cardinality({k \in 1..Len(scans) : scans[k].tier = "fallback"}) <= 1

\* A step of scan_objects read character by character advances the index by
\* exactly one; a step of main that resumes the generator advances it by one
\* at least unless it is at the end of the text; the anchor index never goes
\* back and a scan that ends in the Anchored tier moves it forward.
C20_ProgressStep ==
  /\ pc = "while" /\ pc' = "while" => i' = i + 1
  /\ pc = "scan" /\ pc' = "classify" => i < i' /\ i' <= Len(s)
  /\ pc = "scan" /\ pc' # "classify" => i' = Len(s)
  /\ hx' >= hx
  /\ pc = "scan" /\ pc' = "hits" => hx' = hx + 1

\* What is left of one scan: five units per character not yet read, and
\* within one candidate the stages still ahead of it.
ScanLeft ==
  5 * (Len(s) - i)
  + (CASE pc = "classify" -> 4
       [] pc = "parse" -> 3
       [] pc = "repair" -> 2
       [] pc = "write" -> 1
       [] OTHER -> 0)

\* An upper bound of ScanLeft, plus one.
ScanMost == 5 * Len(s) + 5

\* A measure of the work left in a run.  One call of scan_objects read
\* character by character: the characters left, plus one for the return.
\* One run of main, from the end backwards: the exit, the summary, the
\* fallback scan, the test of line 110, and before them one scan and one
\* step to the next anchor for each anchor not yet done.
C20_Variant ==
  CASE pc = "returned" \/ pc = "done" -> 0
    [] pc = "while" -> Len(s) - i + 1
    [] pc = "check" -> 1
    [] pc = "summary" -> 2
    [] pc = "fallback" -> ScanMost + 4
    [] pc = "hits" ->
         ScanMost + 5 + (ScanMost + 1) * (Len(hits) - hx) + ScanMost
    [] pc = "start" -> ScanMost + 5 + (ScanMost + 1) * (Len(s) + 2)
    [] OTHER ->
         IF tier = "fallback" THEN ScanLeft + 3
         ELSE ScanMost + 5 + (ScanMost + 1) * (Len(hits) - hx) + ScanLeft

\* A state that is not the end of a run has a step.  Where one of two
\* actions is taken on the result of a total function (the generator yields
\* or is exhausted, json.loads returns or raises) the result is there.
C20_NeverStuck ==
  /\ pc = "while" => ENABLED <<ScanNext>>_vars
  /\ pc \in {"start", "hits", "classify", "write", "fallback", "summary",
             "check"} => ENABLED <<Next>>_vars
  /\ pc = "scan" =>
       LET r == ScanResume(s, ScanState) IN
         r.yield = <<>> \/ (r.yield[1] < r.yield[2] /\ r.yield[2] = r.st.i)
  /\ pc = "parse" => JsonLoads(obj).ok \in BOOLEAN
  /\ pc = "repair" => JsonLoads(light_cleanup(obj)).ok \in BOOLEAN
  /\ pc \in {"while", "returned", "start", "hits", "scan", "classify",
             "parse", "repair", "write", "fallback", "summary", "check",
             "done"}

\* C20: for every document the run ends, in one of the failure exits or in
\* success, and every scan_objects call returns.  Every step lowers the
\* measure C20_Variant, a natural number, so a run from a state of measure n
\* takes n steps at most, and a state without a step is the end of a run:
\* pc is "returned" for scan_objects, "done" with exit code 0, 1, 2 or 3 for
\* main.  find_all gives a finite, strictly increasing list, each
\* scan_objects call advances its index by exactly one per character up to
\* the end of the text and yields finitely many candidates, and main makes
\* at most one scan per anchor plus at most one fallback scan.
C20_Terminates ==
  /\ [][C20_Variant' < C20_Variant]_vars
  /\ [](C20_Variant \in Nat)
  /\ []C20_NeverStuck
  /\ [](pc = "done" => exit_code \in {0, 1, 2, 3})
  /\ [][C20_ProgressStep]_vars
  /\ []C20_Bounded

\* C20 witness: the run on the two exports has ended in success after two
\* scans of the Anchored tier and no fallback scan.
C20_Witness ==
  /\ pc = "done"
  /\ exit_code = 0
  /\ s = TwoExportsDoc
  /\ Len(hits) = 2
  /\ Len(scans) = 2
  /\ i = Len(s)

====
